---- MODULE Spec2Model ----
(***************************************************************************)
(* Model of the MTG rules classifier backend (four variants of one         *)
(* express server: part_000 = Groq + static routing + EN/DE rule files,    *)
(* part_001 = Gemini, part_002 = Groq without rule files, server.js =      *)
(* Groq + precomputed embeddings).                                         *)
(*                                                                         *)
(* JavaScript strings are modelled as sequences of one-character strings,  *)
(* so that splitting, trimming, lower-casing and regular-expression        *)
(* matching are computed character by character.                           *)
(***************************************************************************)
EXTENDS Integers, Sequences, FiniteSets, TLC

(***************************************************************************)
(* Bounds of the model.                                                    *)
(***************************************************************************)
MaxRawPieces == 4

MaxReplyPieces == 3

MaxQuestionPieces == 3

MaxRules == 3

(***************************************************************************)
(* Character classes of the JavaScript regular expressions used.           *)
(***************************************************************************)
Digits == {"0", "1", "2", "3", "4", "5", "6", "7", "8", "9"}

LowerLetters ==
  {"a", "b", "c", "d", "e", "f", "g", "h", "i", "j", "k", "l", "m",
   "n", "o", "p", "q", "r", "s", "t", "u", "v", "w", "x", "y", "z"}

UpperLetters ==
  {"A", "B", "C", "D", "E", "F", "G", "H", "I", "J", "K", "L", "M",
   "N", "O", "P", "Q", "R", "S", "T", "U", "V", "W", "X", "Y", "Z"}

\* the German letters a-umlaut, o-umlaut, u-umlaut and sharp s are written
\* "ae", "oe", "ue", "ss" ("AE", "OE", "UE" in upper case): each is ONE
\* character of the modelled string
Umlauts == {"ae", "oe", "ue", "ss"}

UpperUmlauts == {"AE", "OE", "UE"}

\* \w of a JavaScript regular expression without the u flag (ASCII only)
IsWordChar(c) == c \in Digits \cup LowerLetters \cup UpperLetters \cup {"_"}

\* \s of a JavaScript regular expression, and the characters trim() strips
Whitespace == {" ", "\t", "\n", "\r"}

\* the characters the regular-expression dot does not match
LineTerminators == {"\n", "\r"}

IsDigit(c) == c \in Digits

IsLowerLetter(c) == c \in LowerLetters

IsSpace(c) == c \in Whitespace

(***************************************************************************)
(* String helpers: String.prototype.toLowerCase, trim, Array.join.         *)
(***************************************************************************)
LowerPairs ==
  {<<"A", "a">>, <<"B", "b">>, <<"C", "c">>, <<"D", "d">>, <<"E", "e">>,
   <<"F", "f">>, <<"G", "g">>, <<"H", "h">>, <<"I", "i">>, <<"J", "j">>,
   <<"K", "k">>, <<"L", "l">>, <<"M", "m">>, <<"N", "n">>, <<"O", "o">>,
   <<"P", "p">>, <<"Q", "q">>, <<"R", "r">>, <<"S", "s">>, <<"T", "t">>,
   <<"U", "u">>, <<"V", "v">>, <<"W", "w">>, <<"X", "x">>, <<"Y", "y">>,
   <<"Z", "z">>, <<"AE", "ae">>, <<"OE", "oe">>, <<"UE", "ue">>}

LowerChar(c) ==
  IF c \in UpperLetters \cup UpperUmlauts THEN (CHOOSE p \in LowerPairs : p[1] = c)[2] ELSE c

toLowerCase(s) == [i \in 1..Len(s) |-> LowerChar(s[i])]

RECURSIVE TrimStart(_)
TrimStart(s) ==
  IF s # <<>> /\ IsSpace(Head(s)) THEN TrimStart(Tail(s)) ELSE s

RECURSIVE TrimEnd(_)
TrimEnd(s) ==
  IF s # <<>> /\ IsSpace(s[Len(s)])
  THEN TrimEnd(SubSeq(s, 1, Len(s) - 1))
  ELSE s

trim(s) == TrimEnd(TrimStart(s))

\* Array.prototype.join("\n") of an array of strings
RECURSIVE JoinLines(_)
JoinLines(ls) ==
  IF ls = <<>> THEN <<>>
  ELSE IF Len(ls) = 1 THEN ls[1]
  ELSE ls[1] \o <<"\n">> \o JoinLines(Tail(ls))

\* raw.split(/\r?\n/): a "\n", with the "\r" right before it when there is
\* one, ends a line; the text after the last "\n" is the last line
\* (cur: the characters of the current line that stand before raw)
RECURSIVE SplitLinesFrom(_, _)
SplitLinesFrom(raw, cur) ==
  LET ends == {i \in 1..Len(raw) : raw[i] = "\n"}
  IN  IF ends = {} THEN <<cur \o raw>>
      ELSE LET i == CHOOSE e \in ends : \A f \in ends : e <= f
               last == IF i >= 2 /\ raw[i - 1] = "\r" THEN i - 2 ELSE i - 1
           IN  <<cur \o SubSeq(raw, 1, last)>>
                 \o SplitLinesFrom(SubSeq(raw, i + 1, Len(raw)), <<>>)

SplitLines(raw) == SplitLinesFrom(raw, <<>>)

(***************************************************************************)
(* parseRulesServer and its header pattern: at the start of the line three *)
(* digits, optionally followed by a dot, one or more digits and at most    *)
(* one lower-case letter (group 1); then any white space; then any         *)
(* characters but line terminators, up to the end of the line.             *)
(***************************************************************************)
\* number of leading digits of s from position i on
RECURSIVE DigitRun(_, _)
DigitRun(s, i) ==
  IF i <= Len(s) /\ IsDigit(s[i]) THEN 1 + DigitRun(s, i + 1) ELSE 0

\* the part of the pattern after group 1, from position i on: after the
\* white space the dot must reach the end of the string, so no line
\* terminator may follow
RECURSIVE SkipSpaces(_, _)
SkipSpaces(s, i) ==
  IF i <= Len(s) /\ IsSpace(s[i]) THEN SkipSpaces(s, i + 1) ELSE i

HeaderTailMatches(s, i) ==
  \A j \in SkipSpaces(s, i)..Len(s) : s[j] \notin LineTerminators

\* the lengths of the prefixes of s that group 1 of the pattern can capture
HeaderCaptureLengths(s) ==
  IF Len(s) < 3 \/ \E i \in 1..3 : ~IsDigit(s[i]) THEN {}
  ELSE LET d == IF Len(s) >= 5 /\ s[4] = "." THEN DigitRun(s, 5) ELSE 0
       IN  {3}
           \cup {4 + k : k \in 1..d}
           \cup (IF d >= 1 /\ Len(s) >= 5 + d /\ IsLowerLetter(s[5 + d])
                 THEN {5 + d} ELSE {})

Max(S) == CHOOSE x \in S : \A y \in S : y <= x

NoMatch == <<"null">>

\* line.match(ruleHeaderRegex): m[1] when the line matches, NoMatch if not.
\* The quantifiers are greedy, so the first capture the engine finds whose
\* tail matches is the longest one.
ruleHeaderRegex(line) ==
  LET ok == {k \in HeaderCaptureLengths(line) : HeaderTailMatches(line, k + 1)}
  IN  IF ok = {} THEN NoMatch ELSE SubSeq(line, 1, Max(ok))

RuleRecord_untrimmed(number, buffer) ==
  [number |-> number, text |-> JoinLines(buffer)]

RuleRecord(number, buffer) ==
  [number |-> number, text |-> trim(JoinLines(buffer))]

\* flush(): push the open rule, if any
flush(rules, currentRuleNumber, currentBuffer) ==
  IF currentRuleNumber # NoMatch
  THEN Append(rules, RuleRecord(currentRuleNumber, currentBuffer))
  ELSE rules

\* the for loop over the lines, from line i on
RECURSIVE ParseLoop(_, _, _, _, _)
ParseLoop(lines, i, currentRuleNumber, currentBuffer, rules) ==
  IF i > Len(lines) THEN flush(rules, currentRuleNumber, currentBuffer)
  ELSE LET m == ruleHeaderRegex(lines[i])
       IN  IF m # NoMatch
           THEN ParseLoop(lines, i + 1, m, <<lines[i]>>,
                          flush(rules, currentRuleNumber, currentBuffer))
           ELSE IF currentRuleNumber # NoMatch
           THEN ParseLoop(lines, i + 1, currentRuleNumber,
                          Append(currentBuffer, lines[i]), rules)
           ELSE ParseLoop(lines, i + 1, currentRuleNumber, currentBuffer, rules)

parseRulesServer(raw) == ParseLoop(SplitLines(raw), 1, NoMatch, <<>>, <<>>)

(***************************************************************************)
(* The regular expressions of normalizeQuestion.  A pattern is a sequence  *)
(* of elements: "alt" (ordered alternatives of literal strings; a class is *)
(* an alternative of one-character strings, an optional item has the empty *)
(* string as its last alternative), "plus" (one or more of a character,    *)
(* greedy) and "wb" (the word boundary).  Matching backtracks in the order *)
(* of the JavaScript engine.                                               *)
(***************************************************************************)
StartsWithAt(s, i, lit) ==
  /\ i + Len(lit) - 1 <= Len(s)
  /\ \A j \in 1..Len(lit) : s[i + j - 1] = lit[j]

\* the word boundary between s[i-1] and s[i]
IsWordBoundary(s, i) ==
  LET before == i > 1 /\ i - 1 <= Len(s) /\ IsWordChar(s[i - 1])
      after == i >= 1 /\ i <= Len(s) /\ IsWordChar(s[i])
  IN  before # after

RECURSIVE CharRun(_, _, _)
CharRun(s, i, c) ==
  IF i <= Len(s) /\ s[i] = c THEN 1 + CharRun(s, i + 1, c) ELSE 0

\* MatchFrom(pat, k, s, i): the position after the match of the elements
\* k.. of pat at position i of s, 0 when there is none
RECURSIVE MatchFrom(_, _, _, _)
RECURSIVE TryAlts(_, _, _, _, _)
RECURSIVE TryPlus(_, _, _, _, _)
MatchFrom(pat, k, s, i) ==
  IF k > Len(pat) THEN i
  ELSE CASE pat[k].k = "alt" -> TryAlts(pat, k, s, i, 1)
         [] pat[k].k = "plus" -> TryPlus(pat, k, s, i, CharRun(s, i, pat[k].c))
         [] pat[k].k = "wb" ->
              IF IsWordBoundary(s, i) THEN MatchFrom(pat, k + 1, s, i) ELSE 0

TryAlts(pat, k, s, i, a) ==
  IF a > Len(pat[k].alts) THEN 0
  ELSE LET lit == pat[k].alts[a]
           r == IF StartsWithAt(s, i, lit)
                THEN MatchFrom(pat, k + 1, s, i + Len(lit)) ELSE 0
       IN  IF r # 0 THEN r ELSE TryAlts(pat, k, s, i, a + 1)

TryPlus(pat, k, s, i, n) ==
  IF n < 1 THEN 0
  ELSE LET r == MatchFrom(pat, k + 1, s, i + n)
       IN  IF r # 0 THEN r ELSE TryPlus(pat, k, s, i, n - 1)

\* q.replace(/pat/g, rep): every match, leftmost first, none overlapping
RECURSIVE ReplaceFrom(_, _, _, _)
ReplaceFrom(s, i, pat, rep) ==
  IF i > Len(s) THEN <<>>
  ELSE LET e == MatchFrom(pat, 1, s, i)
       IN  IF e > i THEN rep \o ReplaceFrom(s, e, pat, rep)
           ELSE <<s[i]>> \o ReplaceFrom(s, i + 1, pat, rep)

replaceAll(s, pat, rep) == ReplaceFrom(s, 1, pat, rep)

\* (a variant of ApplyRewrites that applies the statements in reverse order)
RECURSIVE ApplyRewrites_backwards(_, _, _, _)
ApplyRewrites_backwards(q, table, lo, hi) ==
  IF lo > hi THEN q
  ELSE IF lo = hi THEN replaceAll(q, table[lo].pat, table[lo].rep)
  ELSE LET mid == (lo + hi) \div 2
           half == ApplyRewrites_backwards(q, table, mid + 1, hi)
       IN  IF Len(half) >= 0 THEN ApplyRewrites_backwards(half, table, lo, mid)
           ELSE <<>>

\* the q = q.replace(...) statements lo..hi of a table, in order (the range
\* is halved, and the first half evaluated before the second is entered, to
\* keep the evaluation shallow: the statements are composed in source order)
RECURSIVE ApplyRewrites(_, _, _, _)
ApplyRewrites(q, table, lo, hi) ==
  IF lo > hi THEN q
  ELSE IF lo = hi THEN replaceAll(q, table[lo].pat, table[lo].rep)
  ELSE LET mid == (lo + hi) \div 2
           half == ApplyRewrites(q, table, lo, mid)
       IN  IF Len(half) >= 0 THEN ApplyRewrites(half, table, mid + 1, hi)
           ELSE <<>>

germanRewrites_part000 ==
  <<
  \* line 90
  [pat |-> <<[k |-> "alt", alts |-> <<<<"t", "a", "m", "p", "e", "l", "s", "c", "h", "a", "d", "e", "n">>>>]>>,
   rep |-> <<"t", "r", "a", "m", "p", "e", "l", "s", "c", "h", "a", "d", "e", "n">>],
  \* line 91
  [pat |-> <<[k |-> "alt", alts |-> <<<<"t", "r", "a", "m", "p", "e", "l", "s", "c", "h", "a", "d", "e", "n">>>>]>>,
   rep |-> <<"t", "r", "a", "m", "p", "l", "e">>],
  \* line 92
  [pat |-> <<[k |-> "alt", alts |-> <<<<"t", "r", "a", "m", "p", "e", "l", " ", "s", "c", "h", "a", "d", "e", "n">>>>]>>,
   rep |-> <<"t", "r", "a", "m", "p", "l", "e">>],
  \* line 93
  [pat |-> <<[k |-> "alt", alts |-> <<<<"ue", "b", "e", "r", "r", "e", "n", "n", "e", "n">>>>]>>,
   rep |-> <<"t", "r", "a", "m", "p", "l", "e">>],
  \* line 96
  [pat |-> <<[k |-> "alt", alts |-> <<<<"l", "e", "b", "e", "n", "s", "v", "e", "r", "k", "n", "ue", "p", "f", "u", "n", "g">>>>]>>,
   rep |-> <<"l", "i", "f", "e", "l", "i", "n", "k">>],
  \* line 97
  [pat |-> <<[k |-> "alt", alts |-> <<<<"l", "e", "b", "e", "n", "s", "v", "e", "r", "b", "i", "n", "d", "u", "n", "g">>>>]>>,
   rep |-> <<"l", "i", "f", "e", "l", "i", "n", "k">>],
  \* line 100
  [pat |-> <<[k |-> "alt", alts |-> <<<<"t", "o", "d", "e", "s", "b", "e", "r", "ue", "h", "r", "u", "n", "g">>>>]>>,
   rep |-> <<"d", "e", "a", "t", "h", "t", "o", "u", "c", "h">>],
  \* line 101
  [pat |-> <<[k |-> "alt", alts |-> <<<<"t", "o", "d", "e", "s", " ", "b", "e", "r", "ue", "h", "r", "u", "n", "g">>>>]>>,
   rep |-> <<"d", "e", "a", "t", "h", "t", "o", "u", "c", "h">>],
  \* line 102
  [pat |-> <<[k |-> "alt", alts |-> <<<<"t", "o", "d", "e", "s", "b", "e", "r", "u", "h", "r", "u", "n", "g">>>>]>>,
   rep |-> <<"d", "e", "a", "t", "h", "t", "o", "u", "c", "h">>],
  \* line 103
  [pat |-> <<[k |-> "alt", alts |-> <<<<"t", "o", "d", "e", "s", " ", "b", "e", "r", "u", "h", "r", "u", "n", "g">>>>]>>,
   rep |-> <<"d", "e", "a", "t", "h", "t", "o", "u", "c", "h">>],
  \* line 106
  [pat |-> <<[k |-> "alt", alts |-> <<<<"f", "l", "u", "g", "f">>>>],
              [k |-> "alt", alts |-> <<<<"a">>, <<"ae">>>>],
              [k |-> "alt", alts |-> <<<<"h", "i", "g", "k", "e", "i", "t">>>>]>>,
   rep |-> <<"f", "l", "y", "i", "n", "g">>],
  \* line 107
  [pat |-> <<[k |-> "alt", alts |-> <<<<"f", "l", "i", "e", "g", "e", "n", "d">>>>],
              [k |-> "alt", alts |-> <<<<"e">>, <<>>>>]>>,
   rep |-> <<"f", "l", "y", "i", "n", "g">>],
  \* line 110
  [pat |-> <<[k |-> "alt", alts |-> <<<<"e", "i", "l">>>>],
              [k |-> "alt", alts |-> <<<<"e">>, <<>>>>]>>,
   rep |-> <<"h", "a", "s", "t", "e">>],
  \* line 113
  [pat |-> <<[k |-> "alt", alts |-> <<<<"e", "r", "s", "t", " ", "s", "c", "h", "l", "a", "g">>>>]>>,
   rep |-> <<"e", "r", "s", "t", "s", "c", "h", "l", "a", "g">>],
  \* line 114
  [pat |-> <<[k |-> "alt", alts |-> <<<<"e", "r", "s", "t", "s", "c", "h", "l", "a", "g">>>>]>>,
   rep |-> <<"f", "i", "r", "s", "t", " ", "s", "t", "r", "i", "k", "e">>],
  \* line 115
  [pat |-> <<[k |-> "alt", alts |-> <<<<"f", "i", "r", "s", "t", "s", "t", "r", "i", "k", "e">>>>]>>,
   rep |-> <<"f", "i", "r", "s", "t", " ", "s", "t", "r", "i", "k", "e">>],
  \* line 118
  [pat |-> <<[k |-> "alt", alts |-> <<<<"d", "o", "o">>>>],
              [k |-> "alt", alts |-> <<<<"e">>, <<>>>>],
              [k |-> "alt", alts |-> <<<<"p", "e", "l", "s", "c", "h", "l", "a", "g">>>>]>>,
   rep |-> <<"d", "o", "p", "p", "e", "l", "s", "c", "h", "l", "a", "g">>],
  \* line 119
  [pat |-> <<[k |-> "alt", alts |-> <<<<"d", "o">>>>],
              [k |-> "plus", c |-> "p"],
              [k |-> "alt", alts |-> <<<<"e", "l", "s", "c", "h", "l", "a", "g">>>>]>>,
   rep |-> <<"d", "o", "p", "p", "e", "l", "s", "c", "h", "l", "a", "g">>],
  \* line 120
  [pat |-> <<[k |-> "alt", alts |-> <<<<"d", "o", "p", "p", "e", "l", " ", "s", "c", "h", "l", "a", "g">>>>]>>,
   rep |-> <<"d", "o", "p", "p", "e", "l", "s", "c", "h", "l", "a", "g">>],
  \* line 121
  [pat |-> <<[k |-> "alt", alts |-> <<<<"d", "o", "p", "p", "e", "l", "a", "n", "g", "r", "i", "f", "f">>>>]>>,
   rep |-> <<"d", "o", "p", "p", "e", "l", "s", "c", "h", "l", "a", "g">>],
  \* line 122
  [pat |-> <<[k |-> "alt", alts |-> <<<<"d", "o", "p", "p", "e", "l", "s", "c", "h", "l", "a", "g">>>>]>>,
   rep |-> <<"d", "o", "u", "b", "l", "e", " ", "s", "t", "r", "i", "k", "e">>],
  \* line 123
  [pat |-> <<[k |-> "alt", alts |-> <<<<"d", "o", "u", "b", "l", "e", "s", "t", "r", "i", "k", "e">>>>]>>,
   rep |-> <<"d", "o", "u", "b", "l", "e", " ", "s", "t", "r", "i", "k", "e">>],
  \* line 126
  [pat |-> <<[k |-> "alt", alts |-> <<<<"u", "n", "z", "e", "r", "s", "t">>>>],
              [k |-> "alt", alts |-> <<<<"oe">>, <<"o">>>>],
              [k |-> "alt", alts |-> <<<<"r", "b", "a", "r">>>>]>>,
   rep |-> <<"i", "n", "d", "e", "s", "t", "r", "u", "c", "t", "i", "b", "l", "e">>],
  \* line 129
  [pat |-> <<[k |-> "alt", alts |-> <<<<"v", "e", "r", "g", "i", "f", "t", "u", "n", "g">>>>]>>,
   rep |-> <<"i", "n", "f", "e", "c", "t">>],
  \* line 130
  [pat |-> <<[k |-> "alt", alts |-> <<<<"i", "n", "f", "e", "k", "t">>>>]>>,
   rep |-> <<"i", "n", "f", "e", "c", "t">>],
  \* line 131
  [pat |-> <<[k |-> "alt", alts |-> <<<<"s", "c", "h", "w">>>>],
              [k |-> "alt", alts |-> <<<<"a">>, <<"ae">>>>],
              [k |-> "alt", alts |-> <<<<"c", "h", "u", "n", "g">>>>]>>,
   rep |-> <<"w", "i", "t", "h", "e", "r">>],
  \* line 134
  [pat |-> <<[k |-> "alt", alts |-> <<<<"k", "a", "m", "p", "f", "s", "c", "h", "a", "d", "e", "n">>>>]>>,
   rep |-> <<"c", "o", "m", "b", "a", "t", " ", "d", "a", "m", "a", "g", "e">>],
  \* line 135
  [pat |-> <<[k |-> "alt", alts |-> <<<<"a", "n", "g", "r", "e", "i", "f">>>>],
              [k |-> "alt", alts |-> <<<<"e", "n">>, <<"e", "r">>, <<>>>>]>>,
   rep |-> <<"a", "t", "t", "a", "c", "k">>],
  \* line 136
  [pat |-> <<[k |-> "alt", alts |-> <<<<"v", "e", "r", "t", "e", "i", "d", "i", "g">>>>],
              [k |-> "alt", alts |-> <<<<"e", "n">>, <<"e", "r">>, <<"e", "n", "d", "e">>, <<"e", "n", "d">>>>]>>,
   rep |-> <<"b", "l", "o", "c", "k">>]
  >>

englishRewrites_part000 ==
  <<
  \* line 139
  [pat |-> <<[k |-> "alt", alts |-> <<<<"t", "r", "a", "m", "p", "e", "l", " ", "d", "a", "m", "a", "g", "e">>>>]>>,
   rep |-> <<"t", "r", "a", "m", "p", "l", "e", " ", "d", "a", "m", "a", "g", "e">>]
  >>

germanRewrites_server ==
  <<
  \* line 98
  [pat |-> <<[k |-> "alt", alts |-> <<<<"t", "a", "m", "p", "e", "l", "s", "c", "h", "a", "d", "e", "n">>>>]>>,
   rep |-> <<"t", "r", "a", "m", "p", "e", "l", "s", "c", "h", "a", "d", "e", "n">>],
  \* line 99
  [pat |-> <<[k |-> "alt", alts |-> <<<<"t", "r", "a", "m", "p", "e", "l", "s", "c", "h", "a", "d", "e", "n">>>>]>>,
   rep |-> <<"t", "r", "a", "m", "p", "l", "e">>],
  \* line 100
  [pat |-> <<[k |-> "alt", alts |-> <<<<"t", "r", "a", "m", "p", "e", "l", " ", "s", "c", "h", "a", "d", "e", "n">>>>]>>,
   rep |-> <<"t", "r", "a", "m", "p", "l", "e">>],
  \* line 101
  [pat |-> <<[k |-> "alt", alts |-> <<<<"ue", "b", "e", "r", "r", "e", "n", "n", "e", "n">>>>]>>,
   rep |-> <<"t", "r", "a", "m", "p", "l", "e">>],
  \* line 104
  [pat |-> <<[k |-> "alt", alts |-> <<<<"l", "e", "b", "e", "n", "s", "v", "e", "r", "k", "n", "ue", "p", "f", "u", "n", "g">>>>]>>,
   rep |-> <<"l", "i", "f", "e", "l", "i", "n", "k">>],
  \* line 105
  [pat |-> <<[k |-> "alt", alts |-> <<<<"l", "e", "b", "e", "n", "s", "v", "e", "r", "b", "i", "n", "d", "u", "n", "g">>>>]>>,
   rep |-> <<"l", "i", "f", "e", "l", "i", "n", "k">>],
  \* line 106
  [pat |-> <<[k |-> "alt", alts |-> <<<<"l", "e", "b", "e", "n", "s", "b", "i", "n", "d", "u", "n", "g">>>>]>>,
   rep |-> <<"l", "i", "f", "e", "l", "i", "n", "k">>],
  \* line 109
  [pat |-> <<[k |-> "alt", alts |-> <<<<"t", "o", "d", "e", "s", "b", "e", "r", "ue", "h", "r", "u", "n", "g">>>>]>>,
   rep |-> <<"d", "e", "a", "t", "h", "t", "o", "u", "c", "h">>],
  \* line 110
  [pat |-> <<[k |-> "alt", alts |-> <<<<"t", "o", "d", "e", "s", " ", "b", "e", "r", "ue", "h", "r", "u", "n", "g">>>>]>>,
   rep |-> <<"d", "e", "a", "t", "h", "t", "o", "u", "c", "h">>],
  \* line 111
  [pat |-> <<[k |-> "alt", alts |-> <<<<"t", "o", "d", "e", "s", "b", "e", "r", "u", "h", "r", "u", "n", "g">>>>]>>,
   rep |-> <<"d", "e", "a", "t", "h", "t", "o", "u", "c", "h">>],
  \* line 112
  [pat |-> <<[k |-> "alt", alts |-> <<<<"t", "o", "d", "e", "s", " ", "b", "e", "r", "u", "h", "r", "u", "n", "g">>>>]>>,
   rep |-> <<"d", "e", "a", "t", "h", "t", "o", "u", "c", "h">>],
  \* line 115
  [pat |-> <<[k |-> "alt", alts |-> <<<<"f", "l", "u", "g", "f">>>>],
              [k |-> "alt", alts |-> <<<<"a">>, <<"ae">>>>],
              [k |-> "alt", alts |-> <<<<"h", "i", "g", "k", "e", "i", "t">>>>]>>,
   rep |-> <<"f", "l", "y", "i", "n", "g">>],
  \* line 116
  [pat |-> <<[k |-> "alt", alts |-> <<<<"f", "l", "i", "e", "g", "e", "n", "d">>>>],
              [k |-> "alt", alts |-> <<<<"e">>, <<>>>>]>>,
   rep |-> <<"f", "l", "y", "i", "n", "g">>],
  \* line 119
  [pat |-> <<[k |-> "alt", alts |-> <<<<"e", "i", "l">>>>],
              [k |-> "alt", alts |-> <<<<"e">>, <<>>>>]>>,
   rep |-> <<"h", "a", "s", "t", "e">>],
  \* line 122
  [pat |-> <<[k |-> "alt", alts |-> <<<<"e", "r", "s", "t", " ", "s", "c", "h", "l", "a", "g">>>>]>>,
   rep |-> <<"e", "r", "s", "t", "s", "c", "h", "l", "a", "g">>],
  \* line 123
  [pat |-> <<[k |-> "alt", alts |-> <<<<"e", "r", "s", "t", "s", "c", "h", "l", "a", "g">>>>]>>,
   rep |-> <<"f", "i", "r", "s", "t", " ", "s", "t", "r", "i", "k", "e">>],
  \* line 124
  [pat |-> <<[k |-> "alt", alts |-> <<<<"f", "i", "r", "s", "t", "s", "t", "r", "i", "k", "e">>>>]>>,
   rep |-> <<"f", "i", "r", "s", "t", " ", "s", "t", "r", "i", "k", "e">>],
  \* line 127
  [pat |-> <<[k |-> "alt", alts |-> <<<<"d", "o", "p", "p", "e", "l", " ", "s", "c", "h", "l", "a", "g">>>>]>>,
   rep |-> <<"d", "o", "p", "p", "e", "l", "s", "c", "h", "l", "a", "g">>],
  \* line 128
  [pat |-> <<[k |-> "alt", alts |-> <<<<"d", "o", "p", "p", "e", "l", "s", "c", "h", "l", "a", "g">>>>]>>,
   rep |-> <<"d", "o", "u", "b", "l", "e", " ", "s", "t", "r", "i", "k", "e">>],
  \* line 129
  [pat |-> <<[k |-> "alt", alts |-> <<<<"d", "o", "p", "p", "e", "l", "a", "n", "g", "r", "i", "f", "f">>>>]>>,
   rep |-> <<"d", "o", "u", "b", "l", "e", " ", "s", "t", "r", "i", "k", "e">>],
  \* line 130
  [pat |-> <<[k |-> "alt", alts |-> <<<<"d", "o", "u", "b", "l", "e", "s", "t", "r", "i", "k", "e">>>>]>>,
   rep |-> <<"d", "o", "u", "b", "l", "e", " ", "s", "t", "r", "i", "k", "e">>],
  \* line 133
  [pat |-> <<[k |-> "alt", alts |-> <<<<"u", "n", "z", "e", "r", "s", "t">>>>],
              [k |-> "alt", alts |-> <<<<"oe">>, <<"o">>>>],
              [k |-> "alt", alts |-> <<<<"r", "b", "a", "r">>>>],
              [k |-> "alt", alts |-> <<<<"k", "e", "i", "t">>, <<>>>>]>>,
   rep |-> <<"i", "n", "d", "e", "s", "t", "r", "u", "c", "t", "i", "b", "l", "e">>],
  \* line 134
  [pat |-> <<[k |-> "alt", alts |-> <<<<"u", "n", "z", "e", "r", "s", "t">>>>],
              [k |-> "alt", alts |-> <<<<"oe">>, <<"o">>>>],
              [k |-> "alt", alts |-> <<<<"r", "l", "i", "c", "h", "k", "e", "i", "t">>>>]>>,
   rep |-> <<"i", "n", "d", "e", "s", "t", "r", "u", "c", "t", "i", "b", "l", "e">>],
  \* line 135
  [pat |-> <<[k |-> "alt", alts |-> <<<<"n", "i", "c", "h", "t", " ", "z", "e", "r", "s", "t">>>>],
              [k |-> "alt", alts |-> <<<<"oe">>, <<"o">>>>],
              [k |-> "alt", alts |-> <<<<"r", "b", "a", "r">>>>]>>,
   rep |-> <<"i", "n", "d", "e", "s", "t", "r", "u", "c", "t", "i", "b", "l", "e">>],
  \* line 138
  [pat |-> <<[k |-> "alt", alts |-> <<<<"f", "l", "u", "c", "h", "s", "i", "c", "h", "e", "r">>>>]>>,
   rep |-> <<"h", "e", "x", "p", "r", "o", "o", "f">>],
  \* line 139
  [pat |-> <<[k |-> "alt", alts |-> <<<<"f", "l", "u", "c", "h", " ", "s", "i", "c", "h", "e", "r">>>>]>>,
   rep |-> <<"h", "e", "x", "p", "r", "o", "o", "f">>],
  \* line 142
  [pat |-> <<[k |-> "wb"],
              [k |-> "alt", alts |-> <<<<"w", "a", "r", "d">>>>],
              [k |-> "wb"]>>,
   rep |-> <<"w", "a", "r", "d">>],
  \* line 145
  [pat |-> <<[k |-> "alt", alts |-> <<<<"w">>>>],
              [k |-> "alt", alts |-> <<<<"a">>, <<"ae">>>>],
              [k |-> "alt", alts |-> <<<<"c", "h", "t", "e", "r", "h", "a", "f", "t">>>>]>>,
   rep |-> <<"v", "i", "g", "i", "l", "a", "n", "c", "e">>],
  \* line 146
  [pat |-> <<[k |-> "alt", alts |-> <<<<"w">>>>],
              [k |-> "alt", alts |-> <<<<"a">>, <<"ae">>>>],
              [k |-> "alt", alts |-> <<<<"c", "h", "t", "e", "r">>>>]>>,
   rep |-> <<"v", "i", "g", "i", "l", "a", "n", "c", "e">>],
  \* line 149
  [pat |-> <<[k |-> "alt", alts |-> <<<<"b", "e", "d", "r", "o", "h", "u", "n", "g">>>>]>>,
   rep |-> <<"m", "e", "n", "a", "c", "e">>],
  \* line 150
  [pat |-> <<[k |-> "alt", alts |-> <<<<"b", "e", "d", "r", "o", "h", "l", "i", "c", "h">>>>]>>,
   rep |-> <<"m", "e", "n", "a", "c", "e">>],
  \* line 153
  [pat |-> <<[k |-> "alt", alts |-> <<<<"r", "e", "i", "c", "h", "w", "e", "i", "t", "e">>>>]>>,
   rep |-> <<"r", "e", "a", "c", "h">>],
  \* line 156
  [pat |-> <<[k |-> "alt", alts |-> <<<<"m", "e", "i", "s", "t", "e", "r", "s", "c", "h", "a", "f", "t">>>>]>>,
   rep |-> <<"p", "r", "o", "w", "e", "s", "s">>],
  \* line 159
  [pat |-> <<[k |-> "alt", alts |-> <<<<"v", "e", "r", "g", "i", "f", "t", "u", "n", "g">>>>]>>,
   rep |-> <<"i", "n", "f", "e", "c", "t">>],
  \* line 160
  [pat |-> <<[k |-> "alt", alts |-> <<<<"i", "n", "f", "e", "k", "t">>>>]>>,
   rep |-> <<"i", "n", "f", "e", "c", "t">>],
  \* line 161
  [pat |-> <<[k |-> "alt", alts |-> <<<<"s", "c", "h", "w">>>>],
              [k |-> "alt", alts |-> <<<<"a">>, <<"ae">>>>],
              [k |-> "alt", alts |-> <<<<"c", "h", "u", "n", "g">>>>]>>,
   rep |-> <<"w", "i", "t", "h", "e", "r">>],
  \* line 164
  [pat |-> <<[k |-> "alt", alts |-> <<<<"s", "c", "h", "u", "t", "z", " ", "v", "o", "r">>>>]>>,
   rep |-> <<"p", "r", "o", "t", "e", "c", "t", "i", "o", "n", " ", "f", "r", "o", "m">>],
  \* line 165
  [pat |-> <<[k |-> "alt", alts |-> <<<<"s", "c", "h", "u", "t", "z", " ", "g", "e", "g", "e", "n">>>>]>>,
   rep |-> <<"p", "r", "o", "t", "e", "c", "t", "i", "o", "n", " ", "f", "r", "o", "m">>],
  \* line 170
  [pat |-> <<[k |-> "alt", alts |-> <<<<"t">>>>],
              [k |-> "alt", alts |-> <<<<"oe">>, <<"o">>>>],
              [k |-> "alt", alts |-> <<<<"d", "l", "i", "c", "h">>>>],
              [k |-> "alt", alts |-> <<<<"e", "n">>, <<"e", "r">>, <<"e", "m">>, <<>>>>],
              [k |-> "alt", alts |-> <<<<" ", "s", "c", "h", "a", "d", "e", "n">>>>]>>,
   rep |-> <<"l", "e", "t", "h", "a", "l", " ", "d", "a", "m", "a", "g", "e">>],
  \* line 171
  [pat |-> <<[k |-> "alt", alts |-> <<<<"t">>>>],
              [k |-> "alt", alts |-> <<<<"oe">>, <<"o">>>>],
              [k |-> "alt", alts |-> <<<<"d", "l", "i", "c", "h", "e", "n", " ", "s", "c", "h", "a", "d", "e", "n">>>>]>>,
   rep |-> <<"l", "e", "t", "h", "a", "l", " ", "d", "a", "m", "a", "g", "e">>],
  \* line 172
  [pat |-> <<[k |-> "alt", alts |-> <<<<"t">>>>],
              [k |-> "alt", alts |-> <<<<"oe">>, <<"o">>>>],
              [k |-> "alt", alts |-> <<<<"d", "l", "i", "c", "h", "e", "r", " ", "s", "c", "h", "a", "d", "e", "n">>>>]>>,
   rep |-> <<"l", "e", "t", "h", "a", "l", " ", "d", "a", "m", "a", "g", "e">>],
  \* line 173
  [pat |-> <<[k |-> "alt", alts |-> <<<<"t">>>>],
              [k |-> "alt", alts |-> <<<<"oe">>, <<"o">>>>],
              [k |-> "alt", alts |-> <<<<"d", "l", "i", "c", "h", "e", "r", " ", "d", "a", "m", "a", "g", "e">>>>]>>,
   rep |-> <<"l", "e", "t", "h", "a", "l", " ", "d", "a", "m", "a", "g", "e">>],
  \* line 176
  [pat |-> <<[k |-> "wb"],
              [k |-> "alt", alts |-> <<<<"s", "c", "h", "a", "d", "e", "n">>>>],
              [k |-> "wb"]>>,
   rep |-> <<"d", "a", "m", "a", "g", "e">>],
  \* line 177
  [pat |-> <<[k |-> "alt", alts |-> <<<<"k", "a", "m", "p", "f", "s", "c", "h", "a", "d", "e", "n">>>>]>>,
   rep |-> <<"c", "o", "m", "b", "a", "t", " ", "d", "a", "m", "a", "g", "e">>],
  \* line 180
  [pat |-> <<[k |-> "alt", alts |-> <<<<"a", "n", "g", "r", "e", "i", "f">>>>],
              [k |-> "alt", alts |-> <<<<"e", "n">>, <<"e", "r">>, <<"e", "r", "i", "n", "n", "e", "n">>, <<"e", "r", "n", "d", "e">>, <<>>>>]>>,
   rep |-> <<"a", "t", "t", "a", "c", "k">>],
  \* line 181
  [pat |-> <<[k |-> "alt", alts |-> <<<<"g", "r", "e", "i", "f", "t", " ", "a", "n">>>>]>>,
   rep |-> <<"a", "t", "t", "a", "c", "k", "s">>],
  \* line 182
  [pat |-> <<[k |-> "alt", alts |-> <<<<"g", "r", "e", "i", "f", "e", "n", " ", "a", "n">>>>]>>,
   rep |-> <<"a", "t", "t", "a", "c", "k", "s">>],
  \* line 183
  [pat |-> <<[k |-> "alt", alts |-> <<<<"b", "l", "o", "c", "k">>>>],
              [k |-> "alt", alts |-> <<<<"e", "n">>, <<"e", "r">>, <<"e", "r", "i", "n", "n", "e", "n">>, <<"e", "n", "d", "e">>, <<>>>>]>>,
   rep |-> <<"b", "l", "o", "c", "k">>],
  \* line 184
  [pat |-> <<[k |-> "alt", alts |-> <<<<"g", "e", "b", "l", "o", "c", "k", "t">>>>]>>,
   rep |-> <<"b", "l", "o", "c", "k", "e", "d">>],
  \* line 187
  [pat |-> <<[k |-> "alt", alts |-> <<<<"s", "t", "i", "r", "b", "t">>>>],
              [k |-> "wb"]>>,
   rep |-> <<"d", "i", "e", "s">>],
  \* line 188
  [pat |-> <<[k |-> "alt", alts |-> <<<<"s", "t", "i", "r", "b", "t", " ", "d", "i", "e", " ", "k", "r", "e", "a", "t", "u", "r">>>>]>>,
   rep |-> <<"c", "r", "e", "a", "t", "u", "r", "e", " ", "d", "i", "e", "s">>],
  \* line 189
  [pat |-> <<[k |-> "alt", alts |-> <<<<"s", "t", "i", "r", "b", "t", " ", "e", "i", "n", "e", " ", "k", "r", "e", "a", "t", "u", "r">>>>]>>,
   rep |-> <<"c", "r", "e", "a", "t", "u", "r", "e", " ", "d", "i", "e", "s">>],
  \* line 190
  [pat |-> <<[k |-> "alt", alts |-> <<<<"s", "t", "i", "r", "b", "t", " ", "e", "i", "n">>>>],
              [k |-> "alt", alts |-> <<<<"e">>, <<>>>>],
              [k |-> "alt", alts |-> <<<<" ", "s", "p", "i", "e", "l", "e", "r">>>>],
              [k |-> "alt", alts |-> <<<<"i", "n">>, <<>>>>]>>,
   rep |-> <<"p", "l", "a", "y", "e", "r", " ", "l", "o", "s", "e", "s", " ", "t", "h", "e", " ", "g", "a", "m", "e">>],
  \* line 193
  [pat |-> <<[k |-> "alt", alts |-> <<<<"z", "e", "r", "s", "t">>>>],
              [k |-> "alt", alts |-> <<<<"oe">>, <<"o">>>>],
              [k |-> "alt", alts |-> <<<<"r", "e", "n">>>>]>>,
   rep |-> <<"d", "e", "s", "t", "r", "o", "y">>],
  \* line 194
  [pat |-> <<[k |-> "alt", alts |-> <<<<"z", "e", "r", "s", "t">>>>],
              [k |-> "alt", alts |-> <<<<"oe">>, <<"o">>>>],
              [k |-> "alt", alts |-> <<<<"r", "t">>>>],
              [k |-> "wb"]>>,
   rep |-> <<"d", "e", "s", "t", "r", "o", "y", "e", "d">>],
  \* line 195
  [pat |-> <<[k |-> "alt", alts |-> <<<<"v", "e", "r", "n", "i", "c", "h", "t", "e", "n">>>>]>>,
   rep |-> <<"d", "e", "s", "t", "r", "o", "y">>],
  \* line 200
  [pat |-> <<[k |-> "alt", alts |-> <<<<"+", "1", "/", "+", "1">>>>],
              [k |-> "alt", alts |-> <<<<"-">>, <<" ">>, <<>>>>],
              [k |-> "alt", alts |-> <<<<"m", "a", "r", "k", "e">>>>],
              [k |-> "alt", alts |-> <<<<"n">>, <<>>>>]>>,
   rep |-> <<"+", "1", "/", "+", "1", " ", "c", "o", "u", "n", "t", "e", "r">>],
  \* line 201
  [pat |-> <<[k |-> "alt", alts |-> <<<<"-", "1", "/", "-", "1">>>>],
              [k |-> "alt", alts |-> <<<<"-">>, <<" ">>, <<>>>>],
              [k |-> "alt", alts |-> <<<<"m", "a", "r", "k", "e">>>>],
              [k |-> "alt", alts |-> <<<<"n">>, <<>>>>]>>,
   rep |-> <<"-", "1", "/", "-", "1", " ", "c", "o", "u", "n", "t", "e", "r">>],
  \* line 202
  [pat |-> <<[k |-> "alt", alts |-> <<<<"z", "e", "i", "t", "m", "a", "r", "k", "e">>>>],
              [k |-> "alt", alts |-> <<<<"n">>, <<>>>>]>>,
   rep |-> <<"t", "i", "m", "e", " ", "c", "o", "u", "n", "t", "e", "r">>],
  \* line 203
  [pat |-> <<[k |-> "alt", alts |-> <<<<"g", "i", "f", "t", "m", "a", "r", "k", "e">>>>],
              [k |-> "alt", alts |-> <<<<"n">>, <<>>>>]>>,
   rep |-> <<"p", "o", "i", "s", "o", "n", " ", "c", "o", "u", "n", "t", "e", "r">>],
  \* line 204
  [pat |-> <<[k |-> "alt", alts |-> <<<<"l", "a", "d", "u", "n", "g", "s", "m", "a", "r", "k", "e">>>>],
              [k |-> "alt", alts |-> <<<<"n">>, <<>>>>]>>,
   rep |-> <<"c", "h", "a", "r", "g", "e", " ", "c", "o", "u", "n", "t", "e", "r">>],
  \* line 205
  [pat |-> <<[k |-> "alt", alts |-> <<<<"m", "a", "r", "k", "e">>>>],
              [k |-> "alt", alts |-> <<<<"n">>, <<>>>>]>>,
   rep |-> <<"c", "o", "u", "n", "t", "e", "r">>],
  \* line 208
  [pat |-> <<[k |-> "wb"],
              [k |-> "alt", alts |-> <<<<"v", "e", "r", "t", "e", "i", "d", "i", "g", "u", "n", "g">>>>],
              [k |-> "wb"]>>,
   rep |-> <<"t", "o", "u", "g", "h", "n", "e", "s", "s">>],
  \* line 209
  [pat |-> <<[k |-> "wb"],
              [k |-> "alt", alts |-> <<<<"w", "i", "d", "e", "r", "s", "t", "a", "n", "d", "s", "k", "r", "a", "f", "t">>>>],
              [k |-> "wb"]>>,
   rep |-> <<"t", "o", "u", "g", "h", "n", "e", "s", "s">>],
  \* line 210
  [pat |-> <<[k |-> "wb"],
              [k |-> "alt", alts |-> <<<<"r", "e", "s", "i">>>>],
              [k |-> "wb"]>>,
   rep |-> <<"t", "o", "u", "g", "h", "n", "e", "s", "s">>],
  \* line 211
  [pat |-> <<[k |-> "wb"],
              [k |-> "alt", alts |-> <<<<"a", "n", "g", "r", "i", "f", "f", "s", "k", "r", "a", "f", "t">>>>],
              [k |-> "wb"]>>,
   rep |-> <<"p", "o", "w", "e", "r">>],
  \* line 215
  [pat |-> <<[k |-> "alt", alts |-> <<<<"f", "r", "i", "e", "d", "h", "o", "f">>>>],
              [k |-> "wb"]>>,
   rep |-> <<"g", "r", "a", "v", "e", "y", "a", "r", "d">>],
  \* line 216
  [pat |-> <<[k |-> "alt", alts |-> <<<<"h", "a", "n", "d", "k", "a", "r", "t", "e">>>>],
              [k |-> "alt", alts |-> <<<<"n">>, <<>>>>]>>,
   rep |-> <<"h", "a", "n", "d">>],
  \* line 217
  [pat |-> <<[k |-> "wb"],
              [k |-> "alt", alts |-> <<<<"h", "a", "n", "d">>>>],
              [k |-> "wb"]>>,
   rep |-> <<"h", "a", "n", "d">>],
  \* line 218
  [pat |-> <<[k |-> "alt", alts |-> <<<<"b", "i", "b", "l", "i", "o", "t", "h", "e", "k">>>>]>>,
   rep |-> <<"l", "i", "b", "r", "a", "r", "y">>],
  \* line 219
  [pat |-> <<[k |-> "alt", alts |-> <<<<"s", "t", "a", "p", "e", "l">>>>],
              [k |-> "wb"]>>,
   rep |-> <<"s", "t", "a", "c", "k">>],
  \* line 220
  [pat |-> <<[k |-> "alt", alts |-> <<<<"e", "x", "i", "l">>>>],
              [k |-> "wb"]>>,
   rep |-> <<"e", "x", "i", "l", "e">>],
  \* line 221
  [pat |-> <<[k |-> "alt", alts |-> <<<<"k", "o", "m", "m", "a", "n", "d", "o", "z", "o", "n", "e">>>>]>>,
   rep |-> <<"c", "o", "m", "m", "a", "n", "d", " ", "z", "o", "n", "e">>],
  \* line 222
  [pat |-> <<[k |-> "alt", alts |-> <<<<"s", "p", "i", "e", "l", "f", "e", "l", "d">>>>]>>,
   rep |-> <<"b", "a", "t", "t", "l", "e", "f", "i", "e", "l", "d">>],
  \* line 223
  [pat |-> <<[k |-> "alt", alts |-> <<<<"i", "m", " ", "s", "p", "i", "e", "l">>>>]>>,
   rep |-> <<"b", "a", "t", "t", "l", "e", "f", "i", "e", "l", "d">>],
  \* line 225
  [pat |-> <<[k |-> "alt", alts |-> <<<<"h", "e", "x", "e", "r", "e", "i">>>>]>>,
   rep |-> <<"s", "o", "r", "c", "e", "r", "y">>],
  \* line 226
  [pat |-> <<[k |-> "alt", alts |-> <<<<"s", "p", "o", "n", "t", "a", "n", "z", "a", "u", "b", "e", "r">>>>]>>,
   rep |-> <<"i", "n", "s", "t", "a", "n", "t">>],
  \* line 227
  [pat |-> <<[k |-> "alt", alts |-> <<<<"v", "e", "r", "z", "a", "u", "b", "e", "r", "u", "n", "g">>>>]>>,
   rep |-> <<"e", "n", "c", "h", "a", "n", "t", "m", "e", "n", "t">>],
  \* line 228
  [pat |-> <<[k |-> "alt", alts |-> <<<<"a", "r", "t", "e", "f", "a", "k", "t">>>>]>>,
   rep |-> <<"a", "r", "t", "i", "f", "a", "c", "t">>],
  \* line 229
  [pat |-> <<[k |-> "alt", alts |-> <<<<"p", "l", "a", "n", "e", "s", "w", "a", "l", "k", "e", "r">>>>]>>,
   rep |-> <<"p", "l", "a", "n", "e", "s", "w", "a", "l", "k", "e", "r">>],
  \* line 230
  [pat |-> <<[k |-> "wb"],
              [k |-> "alt", alts |-> <<<<"z", "a", "u", "b", "e", "r">>>>],
              [k |-> "wb"]>>,
   rep |-> <<"s", "p", "e", "l", "l">>],
  \* line 231
  [pat |-> <<[k |-> "wb"],
              [k |-> "alt", alts |-> <<<<"b", "l", "e", "i", "b", "e", "n", "d", "e">>>>],
              [k |-> "alt", alts |-> <<<<"r">>, <<"n">>, <<>>>>],
              [k |-> "alt", alts |-> <<<<" ", "z", "a", "u", "b", "e", "r">>>>],
              [k |-> "wb"]>>,
   rep |-> <<"p", "e", "r", "m", "a", "n", "e", "n", "t">>],
  \* line 235
  [pat |-> <<[k |-> "alt", alts |-> <<<<"a", "n", "w", "e", "n", "d", "u", "n", "g", " ", "v", "o", "n", " ", "z", "u", "s", "t", "a", "n", "d", "s", "b", "a", "s", "i", "e", "r", "t", "e", "n", " ", "a", "k", "t", "i", "o", "n", "e", "n">>>>]>>,
   rep |-> <<"s", "t", "a", "t", "e", "-", "b", "a", "s", "e", "d", " ", "a", "c", "t", "i", "o", "n", "s">>],
  \* line 236
  [pat |-> <<[k |-> "alt", alts |-> <<<<"z", "u", "s", "t", "a", "n", "d", "s", "b", "a", "s", "i", "e", "r", "t", "e", " ", "a", "k", "t", "i", "o", "n", "e", "n">>>>]>>,
   rep |-> <<"s", "t", "a", "t", "e", "-", "b", "a", "s", "e", "d", " ", "a", "c", "t", "i", "o", "n", "s">>],
  \* line 237
  [pat |-> <<[k |-> "alt", alts |-> <<<<"z", "u", "s", "t", "a", "n", "d", "s", "b", "a", "s", "i", "e", "r", "t", "e", "r", " ", "e", "f", "f", "e", "k", "t">>>>]>>,
   rep |-> <<"s", "t", "a", "t", "e", "-", "b", "a", "s", "e", "d", " ", "a", "c", "t", "i", "o", "n">>],
  \* line 239
  [pat |-> <<[k |-> "alt", alts |-> <<<<"a", "u", "s", "l">>>>],
              [k |-> "alt", alts |-> <<<<"oe">>, <<"o">>>>],
              [k |-> "alt", alts |-> <<<<"s">>>>],
              [k |-> "alt", alts |-> <<<<"e", "r">>, <<"e", "n">>, <<"e", "n", "d", "e">>>>]>>,
   rep |-> <<"t", "r", "i", "g", "g", "e", "r">>],
  \* line 240
  [pat |-> <<[k |-> "alt", alts |-> <<<<"a", "u", "s", "g", "e", "l">>>>],
              [k |-> "alt", alts |-> <<<<"oe">>, <<"o">>>>],
              [k |-> "alt", alts |-> <<<<"s", "t">>>>]>>,
   rep |-> <<"t", "r", "i", "g", "g", "e", "r", "e", "d">>],
  \* line 241
  [pat |-> <<[k |-> "alt", alts |-> <<<<"a", "u", "s", "l">>>>],
              [k |-> "alt", alts |-> <<<<"oe">>, <<"o">>>>],
              [k |-> "alt", alts |-> <<<<"s", "e", "n", "d", "e", " ", "f">>>>],
              [k |-> "alt", alts |-> <<<<"a">>, <<"ae">>>>],
              [k |-> "alt", alts |-> <<<<"h", "i", "g", "k", "e", "i", "t">>>>]>>,
   rep |-> <<"t", "r", "i", "g", "g", "e", "r", "e", "d", " ", "a", "b", "i", "l", "i", "t", "y">>],
  \* line 243
  [pat |-> <<[k |-> "alt", alts |-> <<<<"e", "r", "s", "a", "t", "z">>>>],
              [k |-> "alt", alts |-> <<<<"e", "f">>, <<>>>>],
              [k |-> "alt", alts |-> <<<<"f", "e", "k", "t">>>>]>>,
   rep |-> <<"r", "e", "p", "l", "a", "c", "e", "m", "e", "n", "t", " ", "e", "f", "f", "e", "c", "t">>],
  \* line 244
  [pat |-> <<[k |-> "alt", alts |-> <<<<"e", "r", "s", "a", "t", "z", " ", "e", "f", "f", "e", "k", "t", "e">>>>]>>,
   rep |-> <<"r", "e", "p", "l", "a", "c", "e", "m", "e", "n", "t", " ", "e", "f", "f", "e", "c", "t", "s">>],
  \* line 246
  [pat |-> <<[k |-> "alt", alts |-> <<<<"m", "u", "l", "l", "i", "g", "a", "n">>>>]>>,
   rep |-> <<"m", "u", "l", "l", "i", "g", "a", "n">>]
  >>

englishRewrites_server ==
  <<
  \* line 248
  [pat |-> <<[k |-> "alt", alts |-> <<<<"t", "r", "a", "m", "p", "e", "l", " ", "d", "a", "m", "a", "g", "e">>>>]>>,
   rep |-> <<"t", "r", "a", "m", "p", "l", "e", " ", "d", "a", "m", "a", "g", "e">>]
  >>

\* normalizeQuestion of part_000 and of server.js; question is a string
normalizeQuestion(v, question, language) ==
  IF question = <<>> THEN <<>>
  ELSE LET q == toLowerCase(question)
           de == IF v = "server" THEN germanRewrites_server
                 ELSE germanRewrites_part000
           en == IF v = "server" THEN englishRewrites_server
                 ELSE englishRewrites_part000
       IN  IF language = "de" THEN ApplyRewrites(q, de, 1, Len(de))
           ELSE ApplyRewrites(q, en, 1, Len(en))

(***************************************************************************)
(* Candidate retrieval of part_000: findRelevantRules and the static       *)
(* keyword routing of the /classifyRule handler.                           *)
(***************************************************************************)
\* String.prototype.includes and startsWith
includes(s, sub) == \E i \in 1..(Len(s) + 1) : StartsWithAt(s, i, sub)

startsWith(s, prefix) == StartsWithAt(s, 1, prefix)

\* s.split(/\s+/): the pieces between the maximal runs of white space
RECURSIVE SplitWsFrom(_, _, _)
SplitWsFrom(s, i, cur) ==
  IF i > Len(s) THEN <<cur>>
  ELSE IF IsSpace(s[i])
       THEN <<cur>> \o SplitWsFrom(s, SkipSpaces(s, i), <<>>)
       ELSE SplitWsFrom(s, i + 1, Append(cur, s[i]))

SplitWs(s) == SplitWsFrom(s, 1, <<>>)

\* w.replace(/[^...]/gi, ""): keep the characters of the class
KeepChars(w, class) == SelectSeq(w, LAMBDA c : c \in class)

\* [a-z0-9] and the German letters, case-insensitively (findRelevantRules)
KeywordChars ==
  LowerLetters \cup UpperLetters \cup Digits \cup Umlauts \cup UpperUmlauts

\* [a-z0-9], case-insensitively (embedQuestionNaive)
TokenChars == LowerLetters \cup UpperLetters \cup Digits

\* .map(strip).filter((w) => w.length > 2)
UsableTokens(words, class) ==
  SelectSeq([i \in 1..Len(words) |-> KeepChars(words[i], class)],
            LAMBDA w : Len(w) > 2)

\* the number of matches re.exec finds with the g flag: leftmost first, the
\* next search starting where the last match ended
RECURSIVE CountMatchesFrom(_, _, _)
CountMatchesFrom(s, i, pat) ==
  IF i > Len(s) THEN 0
  ELSE LET e == MatchFrom(pat, 1, s, i)
       IN  IF e > i THEN 1 + CountMatchesFrom(s, e, pat)
           ELSE CountMatchesFrom(s, i + 1, pat)

\* new RegExp("\\b" + escaped + "\\b", "g"): kw holds letters and digits
\* only, so escaping changes nothing
WholeWordPattern(kw) ==
  <<[k |-> "wb"], [k |-> "alt", alts |-> <<kw>>], [k |-> "wb"]>>

Min(a, b) == IF a <= b THEN a ELSE b

\* (a variant of KeywordScore that gives every keyword that occurs the same
\* amount, however often it occurs)
RECURSIVE KeywordScore_flat(_, _, _)
KeywordScore_flat(textLower, keywords, n) ==
  IF n > Len(keywords) THEN 0
  ELSE LET occ == CountMatchesFrom(textLower, 1, WholeWordPattern(keywords[n]))
       IN  (IF occ > 0 THEN 5 + Min(occ, 1) * 2 ELSE 0)
           + KeywordScore_flat(textLower, keywords, n + 1)

\* the keyword loop: the sum over the keywords that occur in the text
RECURSIVE KeywordScore(_, _, _)
KeywordScore(textLower, keywords, n) ==
  IF n > Len(keywords) THEN 0
  ELSE LET occ == CountMatchesFrom(textLower, 1, WholeWordPattern(keywords[n]))
       IN  (IF occ > 0 THEN 5 + Min(occ, 5) * 2 ELSE 0)
           + KeywordScore(textLower, keywords, n + 1)

mechKeywords ==
  <<<<"t", "r", "a", "m", "p", "l", "e">>,
    <<"l", "i", "f", "e", "l", "i", "n", "k">>,
    <<"d", "e", "a", "t", "h", "t", "o", "u", "c", "h">>,
    <<"f", "l", "y", "i", "n", "g">>,
    <<"h", "a", "s", "t", "e">>,
    <<"f", "i", "r", "s", "t", " ", "s", "t", "r", "i", "k", "e">>,
    <<"d", "o", "u", "b", "l", "e", " ", "s", "t", "r", "i", "k", "e">>,
    <<"i", "n", "d", "e", "s", "t", "r", "u", "c", "t", "i", "b", "l", "e">>,
    <<"v", "i", "g", "i", "l", "a", "n", "c", "e">>,
    <<"h", "e", "x", "p", "r", "o", "o", "f">>,
    <<"w", "a", "r", "d">>,
    <<"m", "e", "n", "a", "c", "e">>,
    <<"r", "e", "a", "c", "h">>,
    <<"i", "n", "f", "e", "c", "t">>,
    <<"w", "i", "t", "h", "e", "r">>>>

\* the first line of a rule text: r.text.split(/\r?\n/)[0] || ""
HeaderLineOf(text) == SplitLines(text)[1]

\* /^\d{3}\.\d+$/.test(r.number)
IsMainSubRule(number) ==
  /\ Len(number) >= 5
  /\ \A i \in 1..3 : IsDigit(number[i])
  /\ number[4] = "."
  /\ \A i \in 5..Len(number) : IsDigit(number[i])

\* (a variant of RuleScore that adds the bonuses outside "if (score > 0)")
RuleScore_bonusAlways(r, keywords) ==
  LET base == KeywordScore(toLowerCase(r.text), keywords, 1)
      headerLine == toLowerCase(HeaderLineOf(r.text))
      mech == Cardinality({i \in 1..Len(mechKeywords) :
                             includes(headerLine, mechKeywords[i])})
  IN  base + (IF IsMainSubRule(r.number) THEN 3 ELSE 0) + 5 * mech

\* the score findRelevantRules gives rule r; 0 when r is not pushed
RuleScore(r, keywords) ==
  LET base == KeywordScore(toLowerCase(r.text), keywords, 1)
      headerLine == toLowerCase(HeaderLineOf(r.text))
      mech == Cardinality({i \in 1..Len(mechKeywords) :
                             includes(headerLine, mechKeywords[i])})
  IN  IF base > 0
      THEN base + (IF IsMainSubRule(r.number) THEN 3 ELSE 0) + 5 * mech
      ELSE 0

\* scored.sort((a, b) => b.score - a.score): Array.prototype.sort is stable,
\* so equal scores keep their order.  InsertByScore puts x behind the
\* elements of the sorted list whose score is not lower.
RECURSIVE InsertByScore(_, _)
InsertByScore(sorted, x) ==
  IF sorted = <<>> THEN <<x>>
  ELSE IF Head(sorted).score >= x.score
       THEN <<Head(sorted)>> \o InsertByScore(Tail(sorted), x)
       ELSE <<x>> \o sorted

RECURSIVE SortByScore(_, _)
SortByScore(xs, n) ==
  IF n = 0 THEN <<>> ELSE InsertByScore(SortByScore(xs, n - 1), xs[n])

\* Array.prototype.slice(0, n)
FirstN(xs, n) == SubSeq(xs, 1, Min(n, Len(xs)))

\* the scored list of findRelevantRules, before and after sort and slice
ScoredRules(rules, keywords) ==
  SelectSeq([i \in 1..Len(rules) |->
               [rule |-> rules[i], score |-> RuleScore(rules[i], keywords)]],
            LAMBDA x : x.score > 0)

findRelevantRules(normalizedQuestion, rules, maxResults) ==
  IF Len(rules) = 0 \/ normalizedQuestion = <<>> THEN <<>>
  ELSE LET q == trim(toLowerCase(normalizedQuestion))
           keywords == UsableTokens(SplitWs(q), KeywordChars)
           scored == ScoredRules(rules, keywords)
           sorted == SortByScore(scored, Len(scored))
           top == FirstN(sorted, maxResults)
       IN  IF Len(keywords) = 0 THEN <<>>
           ELSE [i \in 1..Len(top) |-> top[i].rule]

\* rulesForLang.filter((r) => r.number.startsWith(prefix))
RulesWithPrefix(rules, prefix) ==
  SelectSeq(rules, LAMBDA r : startsWith(r.number, prefix))

KwTrample == <<"t", "r", "a", "m", "p", "l", "e">>
KwLifelink == <<"l", "i", "f", "e", "l", "i", "n", "k">>
KwDeathtouch == <<"d", "e", "a", "t", "h", "t", "o", "u", "c", "h">>
KwDoubleStrike == <<"d", "o", "u", "b", "l", "e", " ", "s", "t", "r", "i", "k", "e">>
KwFirstStrike == <<"f", "i", "r", "s", "t", " ", "s", "t", "r", "i", "k", "e">>
KwCombatDamage == <<"c", "o", "m", "b", "a", "t", " ", "d", "a", "m", "a", "g", "e">>
KwAttack == <<"a", "t", "t", "a", "c", "k">>
KwBlock == <<"b", "l", "o", "c", "k">>

\* whether one of the branches of the static routing chain is taken
isCombat(nq) ==
  \/ includes(nq, KwTrample)
  \/ includes(nq, KwLifelink)
  \/ includes(nq, KwDeathtouch)
  \/ includes(nq, KwDoubleStrike)
  \/ includes(nq, KwFirstStrike)
  \/ includes(nq, KwCombatDamage)
  \/ includes(nq, KwAttack)
  \/ includes(nq, KwBlock)

\* (a variant of routeCandidates that tests "lifelink" before "trample")
routeCandidates_lifelinkFirst(nq, rulesForLang) ==
  LET cd == RulesWithPrefix(rulesForLang, <<"5", "1", "0", ".">>)
      ds == RulesWithPrefix(rulesForLang, <<"7", "0", "2", ".", "4">>)
      fs == RulesWithPrefix(rulesForLang, <<"7", "0", "2", ".", "7">>)
  IN  IF includes(nq, KwLifelink) THEN RulesWithPrefix(rulesForLang, <<"7", "0", "2", ".", "1", "5">>)
      ELSE IF includes(nq, KwTrample) THEN RulesWithPrefix(rulesForLang, <<"7", "0", "2", ".", "1", "9">>)
      ELSE IF includes(nq, KwDeathtouch) THEN RulesWithPrefix(rulesForLang, <<"7", "0", "2", ".", "2">>)
      ELSE IF includes(nq, KwDoubleStrike) THEN ds \o cd
      ELSE IF includes(nq, KwFirstStrike) THEN fs \o cd
      ELSE IF \/ includes(nq, KwCombatDamage)
              \/ includes(nq, KwAttack)
              \/ includes(nq, KwBlock)
           THEN cd \o ds \o fs
      ELSE findRelevantRules(nq, rulesForLang, 5)

\* (a variant of routeCandidates whose "double strike" and "first strike"
\* branches leave the combat-damage rules out)
routeCandidates_strikeOnly(nq, rulesForLang) ==
  LET cd == RulesWithPrefix(rulesForLang, <<"5", "1", "0", ".">>)
      ds == RulesWithPrefix(rulesForLang, <<"7", "0", "2", ".", "4">>)
      fs == RulesWithPrefix(rulesForLang, <<"7", "0", "2", ".", "7">>)
  IN  IF includes(nq, KwTrample) THEN RulesWithPrefix(rulesForLang, <<"7", "0", "2", ".", "1", "9">>)
      ELSE IF includes(nq, KwLifelink) THEN RulesWithPrefix(rulesForLang, <<"7", "0", "2", ".", "1", "5">>)
      ELSE IF includes(nq, KwDeathtouch) THEN RulesWithPrefix(rulesForLang, <<"7", "0", "2", ".", "2">>)
      ELSE IF includes(nq, KwDoubleStrike) THEN ds
      ELSE IF includes(nq, KwFirstStrike) THEN fs
      ELSE IF \/ includes(nq, KwCombatDamage)
              \/ includes(nq, KwAttack)
              \/ includes(nq, KwBlock)
           THEN cd \o ds \o fs
      ELSE findRelevantRules(nq, rulesForLang, 5)

\* the if / else-if chain of the handler; the last branch is the generic
\* fallback findRelevantRules(normalizedQuestion, language, 5)
routeCandidates(nq, rulesForLang) ==
  LET cd == RulesWithPrefix(rulesForLang, <<"5", "1", "0", ".">>)
      ds == RulesWithPrefix(rulesForLang, <<"7", "0", "2", ".", "4">>)
      fs == RulesWithPrefix(rulesForLang, <<"7", "0", "2", ".", "7">>)
  IN  IF includes(nq, KwTrample) THEN RulesWithPrefix(rulesForLang, <<"7", "0", "2", ".", "1", "9">>)
      ELSE IF includes(nq, KwLifelink) THEN RulesWithPrefix(rulesForLang, <<"7", "0", "2", ".", "1", "5">>)
      ELSE IF includes(nq, KwDeathtouch) THEN RulesWithPrefix(rulesForLang, <<"7", "0", "2", ".", "2">>)
      ELSE IF includes(nq, KwDoubleStrike) THEN ds \o cd
      ELSE IF includes(nq, KwFirstStrike) THEN fs \o cd
      ELSE IF \/ includes(nq, KwCombatDamage)
              \/ includes(nq, KwAttack)
              \/ includes(nq, KwBlock)
           THEN cd \o ds \o fs
      ELSE findRelevantRules(nq, rulesForLang, 5)

\* candidateRules of part_000 as handed to the context assembly: the routed
\* rules, cut to the first 10
candidateRules(nq, rulesForLang) == FirstN(routeCandidates(nq, rulesForLang), 10)

(***************************************************************************)
(* Candidate retrieval of server.js: cosineSimilarity, embedQuestionNaive  *)
(* and findSimilarRules.  A record of rules_with_embeddings.json is        *)
(* [number, text, hasEmbedding, embedding]; the components of a vector are *)
(* integers.  A similarity is kept exactly, as the sign of the dot product *)
(* and the square of the cosine (num / den), so that the order of the      *)
(* scores is the order of the real numbers the code computes.              *)
(***************************************************************************)
MinusOne == [sgn |-> -1, num |-> 1, den |-> 1]

RECURSIVE DotFrom(_, _, _)
DotFrom(a, b, i) ==
  IF i > Len(a) THEN 0 ELSE a[i] * b[i] + DotFrom(a, b, i + 1)

Sign(x) == IF x > 0 THEN 1 ELSE IF x < 0 THEN -1 ELSE 0

\* a is the query vector [vec, nan] (nan: some component is NaN), r a record
cosineSimilarity(a, r) ==
  IF ~r.hasEmbedding \/ Len(a.vec) # Len(r.embedding) THEN MinusOne
  ELSE LET dot == DotFrom(a.vec, r.embedding, 1)
           na == DotFrom(a.vec, a.vec, 1)
           nb == DotFrom(r.embedding, r.embedding, 1)
       IN  \* !na is true of 0 and of NaN
           IF (a.nan /\ Len(a.vec) > 0) \/ na = 0 \/ nb = 0 THEN MinusOne
           ELSE [sgn |-> Sign(dot), num |-> dot * dot, den |-> na * nb]

\* a >= b for two similarities
SimilarityGE(a, b) ==
  IF a.sgn # b.sgn THEN a.sgn > b.sgn
  ELSE IF a.sgn = 1 THEN a.num * b.den >= b.num * a.den
  ELSE IF a.sgn = -1 THEN a.num * b.den <= b.num * a.den
  ELSE TRUE

\* the first record whose lower-cased text contains the token, 0 if none
FirstRuleContaining(rules, lowerToken) ==
  LET hits == {i \in 1..Len(rules) :
                 includes(toLowerCase(rules[i].text), lowerToken)}
  IN  IF hits = {} THEN 0 ELSE CHOOSE i \in hits : \A j \in hits : i <= j

\* the token loop of embedQuestionNaive from token n on; acc is
\* [vec, nan, count, threw].  Reading a component of a missing vector
\* throws a TypeError; a component past the end of a shorter vector is
\* undefined and makes the sum NaN.
RECURSIVE EmbedLoop(_, _, _, _, _)
EmbedLoop(tokens, n, rules, dim, acc) ==
  IF n > Len(tokens) \/ acc.threw THEN acc
  ELSE LET h == FirstRuleContaining(rules, toLowerCase(tokens[n]))
       IN  IF h = 0 THEN EmbedLoop(tokens, n + 1, rules, dim, acc)
           ELSE IF ~rules[h].hasEmbedding /\ dim > 0
           THEN [acc EXCEPT !.threw = TRUE]
           ELSE LET emb == rules[h].embedding
                    next ==
                      [vec |-> [i \in 1..dim |->
                                  acc.vec[i] + (IF i <= Len(emb) THEN emb[i] ELSE 0)],
                       nan |-> acc.nan \/ Len(emb) < dim,
                       count |-> acc.count + 1,
                       threw |-> FALSE]
                IN  EmbedLoop(tokens, n + 1, rules, dim, next)

\* embedQuestionNaive: [kind, vec, nan] with kind "null", "throw" or "vec".
\* The vector is the sum over the matched records; the code divides it by
\* count, which changes no cosine.
embedQuestionNaive(text, rules) ==
  LET tokens == UsableTokens(SplitWs(text), TokenChars)
  IN  IF Len(tokens) = 0 \/ Len(rules) = 0
      THEN [kind |-> "null", vec |-> <<>>, nan |-> FALSE]
      ELSE IF ~rules[1].hasEmbedding
      THEN [kind |-> "throw", vec |-> <<>>, nan |-> FALSE]
      ELSE LET dim == Len(rules[1].embedding)
               acc == EmbedLoop(tokens, 1, rules, dim,
                                [vec |-> [i \in 1..dim |-> 0], nan |-> FALSE,
                                 count |-> 0, threw |-> FALSE])
           IN  IF acc.threw THEN [kind |-> "throw", vec |-> <<>>, nan |-> FALSE]
               ELSE IF acc.count = 0
               THEN [kind |-> "null", vec |-> <<>>, nan |-> FALSE]
               ELSE [kind |-> "vec", vec |-> acc.vec, nan |-> acc.nan]

\* scored.sort((a, b) => b.score - a.score), stable
RECURSIVE InsertBySimilarity(_, _)
InsertBySimilarity(sorted, x) ==
  IF sorted = <<>> THEN <<x>>
  ELSE IF SimilarityGE(Head(sorted).score, x.score)
       THEN <<Head(sorted)>> \o InsertBySimilarity(Tail(sorted), x)
       ELSE <<x>> \o sorted

RECURSIVE SortBySimilarity(_, _)
SortBySimilarity(xs, n) ==
  IF n = 0 THEN <<>>
  ELSE InsertBySimilarity(SortBySimilarity(xs, n - 1), xs[n])

\* (a variant of findSimilarRules without the check of a null query vector:
\* cosineSimilarity then gives every record -1)
findSimilarRules_noNullCheck(normalizedQuestion, rules, maxResults) ==
  IF Len(rules) = 0 \/ normalizedQuestion = <<>>
  THEN [threw |-> FALSE, list |-> <<>>]
  ELSE LET qEmbedding == embedQuestionNaive(normalizedQuestion, rules)
           scored == [i \in 1..Len(rules) |->
                        [number |-> rules[i].number, text |-> rules[i].text,
                         score |-> IF qEmbedding.kind = "null" THEN MinusOne
                                   ELSE cosineSimilarity(qEmbedding, rules[i])]]
       IN  IF qEmbedding.kind = "throw" THEN [threw |-> TRUE, list |-> <<>>]
           ELSE [threw |-> FALSE,
                 list |-> FirstN(SortBySimilarity(scored, Len(scored)), maxResults)]

\* findSimilarRules: [threw, list], list holding [number, text, score]
findSimilarRules(normalizedQuestion, rules, maxResults) ==
  IF Len(rules) = 0 \/ normalizedQuestion = <<>>
  THEN [threw |-> FALSE, list |-> <<>>]
  ELSE LET qEmbedding == embedQuestionNaive(normalizedQuestion, rules)
           scored == [i \in 1..Len(rules) |->
                        [number |-> rules[i].number, text |-> rules[i].text,
                         score |-> cosineSimilarity(qEmbedding, rules[i])]]
       IN  IF qEmbedding.kind = "throw" THEN [threw |-> TRUE, list |-> <<>>]
           ELSE IF qEmbedding.kind = "null" THEN [threw |-> FALSE, list |-> <<>>]
           ELSE [threw |-> FALSE,
                 list |-> FirstN(SortBySimilarity(scored, Len(scored)), maxResults)]

(***************************************************************************)
(* Context assembly: per candidate "Rule <number>:", the header line and   *)
(* the next maxExtraLines lines joined by spaces; blocks joined by a blank *)
(* line.                                                                   *)
(***************************************************************************)
\* Array.prototype.join(sep) of an array of strings
RECURSIVE Join(_, _)
Join(ls, sep) ==
  IF ls = <<>> THEN <<>>
  ELSE IF Len(ls) = 1 THEN ls[1]
  ELSE ls[1] \o sep \o Join(Tail(ls), sep)

\* lines.slice(a, b) with 0-based a and exclusive b
Slice(xs, a, b) == SubSeq(xs, a + 1, Min(b, Len(xs)))

\* (a variant of ContextBlock that joins all the following lines)
ContextBlock_allLines(r, maxExtraLines) ==
  LET lines == SplitLines(r.text)
      header == lines[1]
      rest == Join(Slice(lines, 1, Len(lines)), <<" ">>)
  IN  <<"R", "u", "l", "e", " ">> \o r.number \o <<":", "\n">>
        \o header \o <<"\n">> \o rest

ContextBlock(r, maxExtraLines) ==
  LET lines == SplitLines(r.text)
      header == lines[1]
      rest == Join(Slice(lines, 1, 1 + maxExtraLines), <<" ">>)
  IN  <<"R", "u", "l", "e", " ">> \o r.number \o <<":", "\n">>
        \o header \o <<"\n">> \o rest

contextText(candidates, maxExtraLines) ==
  Join([i \in 1..Len(candidates) |-> ContextBlock(candidates[i], maxExtraLines)],
       <<"\n", "\n">>)

\* const userPrompt = ...: the excerpts or the sentence that there are none,
\* the question, the normalized question and the request for the answer
userPrompt(v, language, question, normalizedQuestion, context) ==
  LET de == language = "de"
      excerpts ==
        IF context # <<>>
        THEN (CASE v = "server" /\ de -> <<"R", "e", "l", "e", "v", "a", "n", "t", "e", " ", "R", "e", "g", "e", "l", "a", "u", "s", "z", "ue", "g", "e", " ", "(", "E", "N", ")", ":", "\n", "\n">>
                [] v = "server" /\ ~de -> <<"R", "e", "l", "e", "v", "a", "n", "t", " ", "r", "u", "l", "e", " ", "e", "x", "c", "e", "r", "p", "t", "s", " ", "(", "E", "N", ")", ":", "\n", "\n">>
                [] v # "server" /\ de -> <<"R", "e", "l", "e", "v", "a", "n", "t", "e", " ", "R", "e", "g", "e", "l", "a", "u", "s", "z", "ue", "g", "e", ":", "\n", "\n">>
                [] OTHER -> <<"R", "e", "l", "e", "v", "a", "n", "t", " ", "r", "u", "l", "e", " ", "e", "x", "c", "e", "r", "p", "t", "s", ":", "\n", "\n">>)
             \o context \o <<"\n", "\n">>
        ELSE IF de THEN <<"K", "e", "i", "n", "e", " ", "R", "e", "g", "e", "l", "a", "u", "s", "z", "ue", "g", "e", " ", "v", "e", "r", "f", "ue", "g", "b", "a", "r", ".", "\n", "\n">>
        ELSE <<"N", "o", " ", "r", "u", "l", "e", " ", "e", "x", "c", "e", "r", "p", "t", "s", " ", "a", "v", "a", "i", "l", "a", "b", "l", "e", ".", "\n", "\n">>
      asked ==
        CASE v = "server" /\ de -> <<"F", "r", "a", "g", "e", " ", "(", "D", "E", ")", ":", "\n">>
          [] de -> <<"F", "r", "a", "g", "e", ":", "\n">>
          [] OTHER -> <<"Q", "u", "e", "s", "t", "i", "o", "n", ":", "\n">>
      normalized ==
        CASE v = "server" /\ de -> <<"N", "o", "r", "m", "a", "l", "i", "s", "i", "e", "r", "t", "e", " ", "F", "r", "a", "g", "e", " ", "(", "f", "ue", "r", " ", "S", "u", "c", "h", "e", ")", ":", "\n">>
          [] v = "server" /\ ~de -> <<"N", "o", "r", "m", "a", "l", "i", "z", "e", "d", " ", "q", "u", "e", "s", "t", "i", "o", "n", " ", "(", "f", "o", "r", " ", "s", "e", "a", "r", "c", "h", ")", ":", "\n">>
          [] v # "server" /\ de -> <<"N", "o", "r", "m", "a", "l", "i", "s", "i", "e", "r", "t", "e", " ", "F", "r", "a", "g", "e", ":", "\n">>
          [] OTHER -> <<"N", "o", "r", "m", "a", "l", "i", "z", "e", "d", " ", "q", "u", "e", "s", "t", "i", "o", "n", ":", "\n">>
      answer ==
        IF de THEN <<"A", "n", "t", "w", "o", "r", "t", " ", "(", "n", "u", "r", " ", "e", "i", "n", "e", " ", "R", "e", "g", "e", "l", "n", "u", "m", "m", "e", "r", " ", "o", "d", "e", "r", " ", "N", "O", "N", "E", ")", ":">>
        ELSE <<"A", "n", "s", "w", "e", "r", " ", "(", "o", "n", "l", "y", " ", "o", "n", "e", " ", "r", "u", "l", "e", " ", "n", "u", "m", "b", "e", "r", " ", "o", "r", " ", "N", "O", "N", "E", ")", ":">>
  IN  excerpts \o asked \o trim(question) \o <<"\n", "\n">>
        \o normalized \o trim(normalizedQuestion) \o <<"\n", "\n">> \o answer

(***************************************************************************)
(* Answer validation: the first token of the reply, lower-cased, against   *)
(* the citation pattern (three digits, a dot, one or more digits, at most  *)
(* one lower-case letter, anchored at both ends), then against the store.  *)
(***************************************************************************)
NONE == <<"N", "O", "N", "E">>

\* text.split(/\s+/)[0]: the characters before the first run of white space
RECURSIVE FirstToken(_)
FirstToken(text) ==
  IF text = <<>> \/ IsSpace(Head(text)) THEN <<>>
  ELSE <<Head(text)>> \o FirstToken(Tail(text))

citationRegex_unanchored(lower) ==
  IF /\ Len(lower) >= 5
     /\ \A i \in 1..3 : IsDigit(lower[i])
     /\ lower[4] = "."
     /\ DigitRun(lower, 5) >= 1
  THEN LET d == DigitRun(lower, 5)
       IN  IF Len(lower) >= 5 + d /\ IsLowerLetter(lower[5 + d])
           THEN SubSeq(lower, 1, 5 + d)
           ELSE SubSeq(lower, 1, 4 + d)
  ELSE NoMatch

\* lower.match(citation pattern): m[1] when it matches, NoMatch if not
citationRegex(lower) ==
  IF /\ Len(lower) >= 5
     /\ \A i \in 1..3 : IsDigit(lower[i])
     /\ lower[4] = "."
     /\ DigitRun(lower, 5) >= 1
  THEN LET d == DigitRun(lower, 5)
       IN  IF Len(lower) = 4 + d THEN lower
           ELSE IF Len(lower) = 5 + d /\ IsLowerLetter(lower[5 + d]) THEN lower
           ELSE NoMatch
  ELSE NoMatch

\* rules.some((r) => r.number.toLowerCase() === candidate.toLowerCase())
numberExists_caseSensitive(rules, candidate) ==
  \E i \in 1..Len(rules) : rules[i].number = candidate

numberExists(rules, candidate) ==
  \E i \in 1..Len(rules) :
    toLowerCase(rules[i].number) = toLowerCase(candidate)

\* (a variant of getRulesForLanguage without the fall-back to the store of
\* the other language)
getRulesForLanguage_ownStore(language, rulesEN, rulesDE) ==
  IF language = "de" THEN rulesDE ELSE rulesEN

\* getRulesForLanguage of part_000
getRulesForLanguage(language, rulesEN, rulesDE) ==
  IF language = "de"
  THEN (IF Len(rulesDE) # 0 THEN rulesDE ELSE rulesEN)
  ELSE (IF Len(rulesEN) # 0 THEN rulesEN ELSE rulesDE)

\* the store a variant validates citations against; part_001 and part_002
\* load no rules at all
ValidationStore(v, language, rulesEN, rulesDE, rulesEmb) ==
  CASE v = "part_000" -> getRulesForLanguage(language, rulesEN, rulesDE)
    [] v = "server" -> rulesEmb
    [] OTHER -> <<>>

\* whether the variant looks the candidate up in a store before accepting it
ChecksStore(v) == v \in {"part_000", "server"}

\* from "const first = ..." to the value of ruleNumber that is returned;
\* text is the trimmed content of the reply
validateAnswer(v, text, store) ==
  LET first == trim(FirstToken(text))
      lower == toLowerCase(first)
      m == citationRegex(lower)
  IN  IF lower = toLowerCase(NONE) THEN NONE
      ELSE IF m = NoMatch THEN NONE
      ELSE IF ChecksStore(v) THEN (IF numberExists(store, m) THEN m ELSE NONE)
      ELSE m

(***************************************************************************)
(* The state of one server process.                                        *)
(***************************************************************************)
VARIABLES
  variant,              \* which of the four server files is running
  apiKey,               \* whether the API credential is set in the environment
  fileEN, fileDE,       \* contents of MTG-Rules.txt and MTG-RulesDE.txt
  fileEmb,              \* contents of rules_with_embeddings.json
  serverRulesEN, serverRulesDE, rulesWithEmbeddings,
  phase,                \* "startup" until the module body has run
  req                   \* the /classifyRule requests, by request id

vars ==
  <<variant, apiKey, fileEN, fileDE, fileEmb,
    serverRulesEN, serverRulesDE, rulesWithEmbeddings, phase, req>>

\* the requests of a run; each is received at most once
Requests == {"r1", "r2"}

Variants == {"part_000", "part_001", "part_002", "server"}

\* a file that fs.readFileSync cannot read (or, for the JSON file, parse)
Unreadable == <<"ENOENT">>

(***************************************************************************)
(* Startup: loadRulesFile, loadRulesDE, loadRulesWithEmbeddings.           *)
(***************************************************************************)
\* try { parseRulesServer(readFileSync(filename)) } catch { [] }
loadRulesFile(file) ==
  IF file = Unreadable THEN <<>> ELSE parseRulesServer(file)

\* try { JSON.parse(readFileSync(EMBEDDINGS_FILE)) } catch { [] }
loadRulesWithEmbeddings(file) ==
  IF file = Unreadable THEN <<>> ELSE file

\* the module body of each variant, up to app.listen
Startup ==
  /\ phase = "startup"
  /\ phase' = "serving"
  /\ serverRulesEN' =
       IF variant = "part_000" THEN loadRulesFile(fileEN) ELSE serverRulesEN
  /\ serverRulesDE' =
       IF variant \in {"part_000", "server"}
       THEN loadRulesFile(fileDE) ELSE serverRulesDE
  /\ rulesWithEmbeddings' =
       IF variant = "server"
       THEN loadRulesWithEmbeddings(fileEmb) ELSE rulesWithEmbeddings
  /\ UNCHANGED <<variant, apiKey, fileEN, fileDE, fileEmb, req>>

(***************************************************************************)
(* The /classifyRule handler.  A JSON value of the request body is         *)
(* [t, s]: its type and, for a string or number, its characters.           *)
(***************************************************************************)
JsUndefined == [t |-> "undefined", s |-> <<>>]

JsString(chars) == [t |-> "string", s |-> chars]

JsNumber(digits) == [t |-> "number", s |-> digits]

\* !value
Falsy(value) ==
  \/ value.t \in {"undefined", "null"}
  \/ value.t = "string" /\ value.s = <<>>
  \/ value.t = "number" /\ value.s = <<"0">>

\* !question || typeof question !== "string"
BadQuestion(question) == Falsy(question) \/ question.t # "string"

\* language = language === "en" ? "en" : "de" (after the default "de")
normalizeLanguage(language) == IF language = "en" THEN "en" ELSE "de"

Absent == <<"absent">>

NoResponse == [status |-> 0, error |-> "", details |-> Absent, ruleNumber |-> Absent]

ErrorResponse(status, error) ==
  [status |-> status, error |-> error, details |-> Absent, ruleNumber |-> Absent]

UpstreamErrorResponse(errorText) ==
  [status |-> 502, error |-> "LLM call failed", details |-> errorText,
   ruleNumber |-> Absent]

RuleResponse(ruleNumber) ==
  [status |-> 200, error |-> "", details |-> Absent, ruleNumber |-> ruleNumber]

NoBody == [question |-> JsUndefined, language |-> "undefined"]

\* body: the request body; language: the handler's local variable; fetched
\* and data: how the outbound call and the read of its body settled
IdleRequest ==
  [pc |-> "idle", body |-> NoBody, language |-> "undefined",
   normalizedQuestion |-> <<>>, candidates |-> <<>>, context |-> <<>>,
   calls |-> 0, fetched |-> "", data |-> [kind |-> "", content |-> <<>>],
   responses |-> <<>>]

\* the reply to a missing credential, by variant
MissingKeyResponse(v) ==
  CASE v = "part_001" -> ErrorResponse(500, "Server misconfigured")
    [] v = "server" -> ErrorResponse(500, "Server misconfigured: missing GROQ_API_KEY")
    [] OTHER -> ErrorResponse(500, "Server misconfigured: missing API key")

BadRequestResponse(v) ==
  IF v = "part_001" THEN ErrorResponse(400, "Missing 'question' string")
  ELSE ErrorResponse(400, "Missing 'question' string in body")

\* the two checks at the head of the handler: the response they send, or
\* NoResponse when both pass.  part_001 checks the question first, the
\* other variants check the credential first.
headChecks_questionFirst(v, key, question) ==
  IF BadQuestion(question) THEN BadRequestResponse(v)
  ELSE IF ~key THEN MissingKeyResponse(v)
  ELSE NoResponse

headChecks(v, key, question) ==
  IF v = "part_001"
  THEN (IF BadQuestion(question) THEN BadRequestResponse(v)
        ELSE IF ~key THEN MissingKeyResponse(v)
        ELSE NoResponse)
  ELSE (IF ~key THEN MissingKeyResponse(v)
        ELSE IF BadQuestion(question) THEN BadRequestResponse(v)
        ELSE NoResponse)

\* the handler from its first statement to the first await: the response
\* when it returns early, else the request-local values and one outbound call
handlerHead(v, key, body, rulesEN, rulesDE, rulesEmb) ==
  LET early == headChecks(v, key, body.question)
      language == IF v \in {"part_000", "server"}
                  THEN normalizeLanguage(body.language) ELSE body.language
      nq == IF v \in {"part_000", "server"}
            THEN normalizeQuestion(v, body.question.s, language) ELSE <<>>
      rulesForLang == getRulesForLanguage(language, rulesEN, rulesDE)
      similar == findSimilarRules(nq, rulesEmb, 15)
      cands == CASE v = "part_000" -> candidateRules(nq, rulesForLang)
                 [] v = "server" -> similar.list
                 [] OTHER -> <<>>
      maxExtraLines == IF v = "server" THEN 8
                       ELSE IF isCombat(nq) THEN 10 ELSE 3
      pending == [IdleRequest EXCEPT !.body = body, !.language = language]
  IN  IF early # NoResponse
      THEN [pending EXCEPT !.language = body.language, !.pc = "done",
                           !.responses = <<early>>]
      ELSE IF v = "server" /\ similar.threw
      THEN [pending EXCEPT !.normalizedQuestion = nq, !.pc = "done",
                           !.responses = <<ErrorResponse(500, "Internal error")>>]
      ELSE [pending EXCEPT !.normalizedQuestion = nq,
                           !.candidates = cands,
                           !.context = contextText(cands, maxExtraLines),
                           !.calls = 1,
                           !.pc = "fetch"]

\* (content || "").trim() and the validation, as the 200 response; a data
\* kind that makes the code throw gives the 500 of the catch block
replyResponse(v, data, store) ==
  IF data.kind \in {"throw", "null", "nonstring"}
  THEN ErrorResponse(500, "Internal error")
  ELSE RuleResponse(validateAnswer(v, trim(data.content), store))

\* (a variant of Receive that cuts the candidate list in place, on the
\* store itself, instead of on a copy)
Receive_inPlace(r, body) ==
  /\ phase = "serving"
  /\ req[r].pc = "idle"
  /\ req' = [req EXCEPT ![r] =
       handlerHead(variant, apiKey, body, serverRulesEN, serverRulesDE,
                   rulesWithEmbeddings)]
  /\ serverRulesEN' = FirstN(serverRulesEN, 1)
  /\ rulesWithEmbeddings' = FirstN(rulesWithEmbeddings, 1)
  /\ UNCHANGED <<variant, apiKey, fileEN, fileDE, fileEmb, serverRulesDE, phase>>

\* the request is received: the synchronous head of the handler runs
Receive(r, body) ==
  /\ phase = "serving"
  /\ req[r].pc = "idle"
  /\ req' = [req EXCEPT ![r] =
       handlerHead(variant, apiKey, body, serverRulesEN, serverRulesDE,
                   rulesWithEmbeddings)]
  /\ UNCHANGED <<variant, apiKey, fileEN, fileDE, fileEmb,
                 serverRulesEN, serverRulesDE, rulesWithEmbeddings, phase>>

\* (a variant of FetchSettles without the catch block: a throw of fetch ends
\* the handler with no response)
FetchSettles_noCatch(r, outcome) ==
  /\ variant # "part_001"
  /\ req[r].pc = "fetch"
  /\ req' = [req EXCEPT ![r] =
       CASE outcome = "throw" -> [@ EXCEPT !.fetched = outcome, !.pc = "done"]
         [] outcome = "ok" -> [@ EXCEPT !.fetched = outcome, !.pc = "json"]
         [] outcome = "notok" -> [@ EXCEPT !.fetched = outcome, !.pc = "text"]]
  /\ UNCHANGED <<variant, apiKey, fileEN, fileDE, fileEmb,
                 serverRulesEN, serverRulesDE, rulesWithEmbeddings, phase>>

\* await fetch(GROQ_API_URL, ...) settles (Groq variants): it throws, or
\* returns a response whose ok flag is set or not
FetchSettles(r, outcome) ==
  /\ variant # "part_001"
  /\ req[r].pc = "fetch"
  /\ req' = [req EXCEPT ![r] =
       CASE outcome = "throw" ->
              [@ EXCEPT !.fetched = outcome, !.pc = "done",
                        !.responses = Append(@, ErrorResponse(500, "Internal error"))]
         [] outcome = "ok" -> [@ EXCEPT !.fetched = outcome, !.pc = "json"]
         [] outcome = "notok" -> [@ EXCEPT !.fetched = outcome, !.pc = "text"]]
  /\ UNCHANGED <<variant, apiKey, fileEN, fileDE, fileEmb,
                 serverRulesEN, serverRulesDE, rulesWithEmbeddings, phase>>

\* await response.json() settles, and the handler runs to its end
JsonSettles(r, data) ==
  /\ req[r].pc = "json"
  /\ req' = [req EXCEPT ![r] =
       [@ EXCEPT !.data = data, !.pc = "done",
                 !.responses = Append(@,
                    replyResponse(variant, data,
                      ValidationStore(variant, req[r].language, serverRulesEN,
                                      serverRulesDE, rulesWithEmbeddings)))]]
  /\ UNCHANGED <<variant, apiKey, fileEN, fileDE, fileEmb,
                 serverRulesEN, serverRulesDE, rulesWithEmbeddings, phase>>

\* await response.text() settles after a non-success status
TextSettles(r, data) ==
  /\ req[r].pc = "text"
  /\ req' = [req EXCEPT ![r] =
       [@ EXCEPT !.data = data, !.pc = "done",
                 !.responses = Append(@,
                    IF data.kind = "throw" THEN ErrorResponse(500, "Internal error")
                    ELSE UpstreamErrorResponse(data.content))]]
  /\ UNCHANGED <<variant, apiKey, fileEN, fileDE, fileEmb,
                 serverRulesEN, serverRulesDE, rulesWithEmbeddings, phase>>

\* await model.generateContent(...) settles (part_001): the SDK throws, also
\* on a non-success status; else result.response.text() is read at once
GenerateSettles(r, outcome, data) ==
  /\ variant = "part_001"
  /\ req[r].pc = "fetch"
  /\ req' = [req EXCEPT ![r] =
       [@ EXCEPT !.fetched = outcome, !.data = data, !.pc = "done",
                 !.responses = Append(@,
                    IF outcome # "ok" THEN ErrorResponse(500, "Internal error")
                    ELSE replyResponse(variant, data, <<>>))]]
  /\ UNCHANGED <<variant, apiKey, fileEN, fileDE, fileEmb,
                 serverRulesEN, serverRulesDE, rulesWithEmbeddings, phase>>

(***************************************************************************)
(* The server under a small environment: rules files, request bodies and   *)
(* LLM outcomes are drawn from the sets below.                             *)
(***************************************************************************)
\* "702.19 Trample\nx\n702.19c y\n510.1 z"
FileEN_A ==
  <<"7", "0", "2", ".", "1", "9", " ", "T", "r", "a", "m", "p", "l", "e", "\n", "x", "\n", "7", "0", "2", ".", "1", "9", "c", " ", "y", "\n", "5", "1", "0", ".", "1", " ", "z">>

\* "702.19 Trampelschaden\n702 x"
FileDE_A ==
  <<"7", "0", "2", ".", "1", "9", " ", "T", "r", "a", "m", "p", "e", "l", "s", "c", "h", "a", "d", "e", "n", "\n", "7", "0", "2", " ", "x">>

\* a rules_with_embeddings.json: a record with an upper-case suffix, one
\* with a vector of another length and one without a vector
FileEmb_A ==
  <<[number |-> <<"7", "0", "2", ".", "1", "9">>, text |-> <<"7", "0", "2", ".", "1", "9", " ", "T", "r", "a", "m", "p", "l", "e">>,
     hasEmbedding |-> TRUE, embedding |-> <<1, 0>>],
    [number |-> <<"7", "0", "2", ".", "1", "9", "C">>, text |-> <<"7", "0", "2", ".", "1", "9", "C", " ", "b", "l", "o", "c", "k">>,
     hasEmbedding |-> TRUE, embedding |-> <<1, 1>>],
    [number |-> <<"5", "1", "0", ".", "1">>, text |-> <<"5", "1", "0", ".", "1", " ", "c", "o", "m", "b", "a", "t", " ", "d", "a", "m", "a", "g", "e">>,
     hasEmbedding |-> TRUE, embedding |-> <<0, 1, 1>>],
    [number |-> <<"7", "0", "2">>, text |-> <<"7", "0", "2", " ", "x", "y", "z">>,
     hasEmbedding |-> FALSE, embedding |-> <<>>]>>

\* the files each variant reads at startup
FilesOK(v, en, de, emb) ==
  CASE v = "part_000" -> emb = Unreadable
    [] v = "server" -> en = Unreadable
    [] OTHER -> en = Unreadable /\ de = Unreadable /\ emb = Unreadable

InitWith(filesEN, filesDE, filesEmb) ==
  /\ variant \in Variants
  /\ apiKey \in BOOLEAN
  /\ fileEN \in filesEN
  /\ fileDE \in filesDE
  /\ fileEmb \in filesEmb
  /\ FilesOK(variant, fileEN, fileDE, fileEmb)
  /\ serverRulesEN = <<>>
  /\ serverRulesDE = <<>>
  /\ rulesWithEmbeddings = <<>>
  /\ phase = "startup"
  /\ req = [r \in Requests |-> IdleRequest]

Init ==
  InitWith({Unreadable, FileEN_A}, {Unreadable, FileDE_A}, {Unreadable, FileEmb_A})

Questions ==
  {JsUndefined, JsString(<<>>), JsNumber(<<"4", "2">>),
   JsString(<<"T", "r", "a", "m", "p", "l", "e", "?">>)}

Bodies == {[question |-> q, language |-> l] : q \in Questions, l \in {"undefined", "en"}}

FetchOutcomes == {"throw", "ok", "notok"}

StringData(content) == [kind |-> "string", content |-> content]

ThrowData == [kind |-> "throw", content |-> <<>>]

\* what response.json() can give: a throw, null, an object without content,
\* a content that is not a string, a content string
JsonData(contents) ==
  {ThrowData, [kind |-> "null", content |-> <<>>],
   [kind |-> "nocontent", content |-> <<>>],
   [kind |-> "nonstring", content |-> <<>>]}
  \cup {StringData(c) : c \in contents}

\* what result.response.text() of the Gemini SDK can give
GeminiData(contents) == {ThrowData} \cup {StringData(c) : c \in contents}

\* what response.text() can give
TextData(texts) == {ThrowData} \cup {StringData(t) : t \in texts}

Contents ==
  {<<"7", "0", "2", ".", "1", "9", "C", " ", "x">>, <<"9", "9", "9", ".", "9">>, <<"n", "o", "n", "e">>}

ErrorTexts == {<<"q", "u", "o", "t", "a">>}

Next ==
  \/ Startup
  \/ \E r \in Requests, body \in Bodies : Receive(r, body)
  \/ \E r \in Requests, outcome \in FetchOutcomes : FetchSettles(r, outcome)
  \/ \E r \in Requests, data \in JsonData(Contents) : JsonSettles(r, data)
  \/ \E r \in Requests, data \in TextData(ErrorTexts) : TextSettles(r, data)
  \/ \E r \in Requests, outcome \in FetchOutcomes, data \in GeminiData(Contents) :
       GenerateSettles(r, outcome, data)

Spec == Init /\ [][Next]_vars

(***************************************************************************)
(* Properties of the request handling, checked under Spec.                 *)
(***************************************************************************)
\* the store the running variant validates the citations of request r against
ActiveStore(r) ==
  ValidationStore(variant, req[r].language, serverRulesEN, serverRulesDE,
                  rulesWithEmbeddings)

Responded(r) == req[r].pc = "done" /\ Len(req[r].responses) = 1

Response(r) == req[r].responses[1]

\* C1: in every variant a 200 response carries "NONE" or a number that is,
\* case-insensitively, in the active rule store.
C1_OnlyStoreCitations ==
  \A r \in Requests :
    (Responded(r) /\ Response(r).status = 200) =>
      \/ Response(r).ruleNumber = NONE
      \/ \E i \in 1..Len(ActiveStore(r)) :
           toLowerCase(ActiveStore(r)[i].number) = Response(r).ruleNumber

\* C4 as stated: in every variant and under every configuration a request
\* with a missing, empty or non-string question is answered 400, and no
\* outbound call is made for it.
C4_BadQuestionIs400 ==
  \A r \in Requests :
    (req[r].pc # "idle" /\ BadQuestion(req[r].body.question)) =>
      /\ Responded(r)
      /\ Response(r).status = 400
      /\ req[r].calls = 0

\* C4 as amended: such a request is answered at once and without an outbound
\* call; the status is 400 when the credential is set, and when it is unset
\* it is 400 in part_001 (question checked first) and 500 in the other
\* variants (credential checked first).
C4_BadQuestionNoCall ==
  \A r \in Requests :
    (req[r].pc # "idle" /\ BadQuestion(req[r].body.question)) =>
      /\ Responded(r)
      /\ req[r].calls = 0
      /\ Response(r).status =
           (IF apiKey \/ variant = "part_001" THEN 400 ELSE 500)

\* a non-string question answered 400 by a server whose credential is set
C4_Witness ==
  \E r \in Requests :
    /\ apiKey
    /\ req[r].body.question.t = "number"
    /\ Responded(r)
    /\ Response(r).status = 400
    /\ req[r].calls = 0

\* at most one outbound call per request, made only after both checks passed
AtMostOneCall ==
  \A r \in Requests :
    /\ req[r].calls <= 1
    /\ req[r].calls = 1 => (apiKey /\ ~BadQuestion(req[r].body.question))
    /\ req[r].pc \in {"fetch", "json", "text"} =>
         (req[r].calls = 1 /\ req[r].responses = <<>>)

\* C5: no retry (at most one outbound call, made after both checks), and a
\* non-success status of the outbound call is answered 502 with error and
\* the upstream error text in details.
C5_NoRetry502 ==
  /\ AtMostOneCall
  /\ \A r \in Requests :
       (req[r].pc = "done" /\ req[r].fetched = "notok") =>
         /\ Responded(r)
         /\ Response(r).status = 502
         /\ Response(r).error # ""
         /\ Response(r).details # Absent

\* every settling of an outbound call or of the read of its body happens:
\* the requests considered are those whose call returns or throws
Fairness ==
  \A r \in Requests :
    /\ WF_vars(\E outcome \in FetchOutcomes : FetchSettles(r, outcome))
    /\ WF_vars(\E data \in JsonData(Contents) : JsonSettles(r, data))
    /\ WF_vars(\E data \in TextData(ErrorTexts) : TextSettles(r, data))
    /\ WF_vars(\E outcome \in FetchOutcomes, data \in GeminiData(Contents) :
                 GenerateSettles(r, outcome, data))

FairSpec == Spec /\ Fairness

\* whether the outbound call of request r, or the read of its body, threw
Threw(r) == req[r].fetched = "throw" \/ req[r].data.kind = "throw"

OneResponse ==
  \A r \in Requests :
    /\ Len(req[r].responses) <= 1
    /\ req[r].pc = "done" =>
         /\ Len(req[r].responses) = 1
         /\ Response(r).status \in {200, 400, 500, 502}
    /\ (req[r].pc = "done" /\ Threw(r)) =>
         Response(r) = ErrorResponse(500, "Internal error")

\* C6: every received request whose outbound call returns or throws gets
\* exactly one response, with status 200, 400, 500 or 502; no path sends two
\* responses or ends without one; a throw of the outbound call or of the
\* read of its body gives 500 with a body holding only error.
C6_ExactlyOneResponse ==
  /\ []OneResponse
  /\ \A r \in Requests : (req[r].pc # "idle") ~> (req[r].pc = "done")

\* a request answered 500 once because the read of the reply body threw
C6_Witness ==
  \E r \in Requests :
    /\ req[r].fetched = "ok"
    /\ req[r].data.kind = "throw"
    /\ req[r].pc = "done"
    /\ req[r].responses = <<ErrorResponse(500, "Internal error")>>

\* the stores as the startup code builds them from the files
LoadedEN == IF variant = "part_000" THEN loadRulesFile(fileEN) ELSE <<>>

LoadedDE ==
  IF variant \in {"part_000", "server"} THEN loadRulesFile(fileDE) ELSE <<>>

LoadedEmb ==
  IF variant = "server" THEN loadRulesWithEmbeddings(fileEmb) ELSE <<>>

\* the response of a request that runs alone on the loaded stores, with the
\* given body and the given outcomes of its outbound call
AloneResponse(en, de, emb, body, fetched, data) ==
  LET head == handlerHead(variant, apiKey, body, en, de, emb)
      store == ValidationStore(variant, head.language, en, de, emb)
  IN  IF head.pc = "done" THEN head.responses[1]
      ELSE IF fetched = "throw" THEN ErrorResponse(500, "Internal error")
      ELSE IF variant = "part_001"
           THEN (IF fetched = "ok" THEN replyResponse(variant, data, <<>>)
                 ELSE ErrorResponse(500, "Internal error"))
      ELSE IF fetched = "ok" THEN replyResponse(variant, data, store)
      ELSE IF data.kind = "throw" THEN ErrorResponse(500, "Internal error")
      ELSE UpstreamErrorResponse(data.content)

\* C7: after the startup load no handler step changes a rule store, and
\* under every interleaving the response of a request is the one it gets
\* when it runs alone with the same body, store and LLM reply.
C7_StoresFixedResponsesIndependent ==
  phase = "serving" =>
    LET en == LoadedEN
        de == LoadedDE
        emb == LoadedEmb
    IN  /\ serverRulesEN = en
        /\ serverRulesDE = de
        /\ rulesWithEmbeddings = emb
        /\ \A r \in Requests :
             req[r].pc = "done" =>
               req[r].responses =
                 <<AloneResponse(en, de, emb, req[r].body, req[r].fetched,
                                 req[r].data)>>

\* a request answered with a citation validated against a non-empty store
\* while the other request is suspended at an await
C7_Witness ==
  \E r, o \in Requests :
    /\ r # o
    /\ Responded(r)
    /\ Response(r).status = 200
    /\ Response(r).ruleNumber # NONE
    /\ ActiveStore(r) # <<>>
    /\ req[o].pc \in {"fetch", "json", "text"}

(***************************************************************************)
(* The validator on arbitrary replies (bounded): one request of each       *)
(* variant is received, its outbound call succeeds and the reply is any    *)
(* text made of at most MaxReplyPieces of the pieces below.                *)
(***************************************************************************)
\* the text made of the pieces ss, in order
RECURSIVE Flatten(_)
Flatten(ss) == IF ss = <<>> THEN <<>> ELSE Head(ss) \o Flatten(Tail(ss))

ReplyPieces ==
  {<<"7", "0", "2">>, <<"7", "0", "2", ".", "1", "9">>, <<"1", "9">>, <<".">>,
   <<"C">>, <<" ">>, <<"n", "o", "n", "e">>, <<"N", "o", "N", "e">>,
   <<"r", "u", "l", "e">>}

ReplyTexts ==
  {Flatten(ps) : ps \in UNION {[1..n -> ReplyPieces] : n \in 0..MaxReplyPieces}}

ValidQuestion == JsString(<<"t", "r", "a", "m", "p", "l", "e">>)

InitValidate ==
  /\ Init
  /\ apiKey = TRUE
  /\ variant = "part_000" => (fileEN = FileEN_A /\ fileDE = FileDE_A)
  /\ variant = "server" => (fileEmb = FileEmb_A /\ fileDE = Unreadable)

\* the languages that make a difference to the variant
ValidateLanguages == IF variant = "part_000" THEN {"undefined", "en"} ELSE {"en"}

NextValidate ==
  \/ Startup
  \/ \E l \in ValidateLanguages :
       Receive("r1", [question |-> ValidQuestion, language |-> l])
  \/ FetchSettles("r1", "ok")
  \/ \E c \in ReplyTexts : JsonSettles("r1", StringData(c))
  \/ \E c \in ReplyTexts : GenerateSettles("r1", "ok", StringData(c))

SpecValidate == InitValidate /\ [][NextValidate]_vars

\* the reply of the LLM as the validator of request r saw it
ReplyOf(r) == req[r].data.content

Validated(r) ==
  Responded(r) /\ Response(r).status = 200 /\ req[r].data.kind = "string"

\* the first white-space-delimited token of the trimmed text s, lower-cased:
\* the characters from the first one that is not white space up to the next
\* white space or the end
FirstTokenLower(s) ==
  LET nonSpace == {i \in 1..Len(s) : ~IsSpace(s[i])}
  IN  IF nonSpace = {} THEN <<>>
      ELSE LET a == CHOOSE i \in nonSpace : \A j \in nonSpace : i <= j
               ends == {i \in a..Len(s) : i = Len(s) \/ IsSpace(s[i + 1])}
               b == CHOOSE i \in ends : \A j \in ends : i <= j
           IN  toLowerCase(SubSeq(s, a, b))

\* three digits, a dot, one or more digits and at most one lower-case letter
IsCitation(t) ==
  \E n \in 1..Len(t), l \in {0, 1} :
    /\ Len(t) = 4 + n + l
    /\ \A i \in 1..3 : t[i] \in Digits
    /\ t[4] = "."
    /\ \A i \in 5..(4 + n) : t[i] \in Digits
    /\ l = 1 => t[Len(t)] \in LowerLetters

\* C2 as stated: for every number in the active store, bare three-digit
\* numbers included, a reply whose first token equals it case-insensitively
\* is validated to that number, in lower case.
C2_EveryStoreNumberAccepted ==
  \A r \in Requests :
    (Validated(r) /\ ChecksStore(variant)) =>
      \A i \in 1..Len(ActiveStore(r)) :
        FirstTokenLower(ReplyOf(r)) = toLowerCase(ActiveStore(r)[i].number)
          => Response(r).ruleNumber = toLowerCase(ActiveStore(r)[i].number)

\* C2 as amended: the same for every number in the active store that has a
\* sub-level (three digits, a dot, digits, at most one letter); a bare
\* three-digit number of the store is answered "NONE".
C2_SubRuleNumbersAccepted ==
  \A r \in Requests :
    (Validated(r) /\ ChecksStore(variant)) =>
      \A i \in 1..Len(ActiveStore(r)) :
        FirstTokenLower(ReplyOf(r)) = toLowerCase(ActiveStore(r)[i].number)
          => Response(r).ruleNumber =
               (IF IsCitation(toLowerCase(ActiveStore(r)[i].number))
                THEN toLowerCase(ActiveStore(r)[i].number) ELSE NONE)

\* a reply "702.19C ..." validated to the store's number 702.19c
C2_Witness ==
  \E r \in Requests :
    /\ Validated(r)
    /\ ChecksStore(variant)
    /\ Len(ReplyOf(r)) >= 7
    /\ SubSeq(ReplyOf(r), 1, 7) # <<"7", "0", "2", ".", "1", "9", "c">>
    /\ Response(r).ruleNumber = <<"7", "0", "2", ".", "1", "9", "c">>
    /\ \E i \in 1..Len(ActiveStore(r)) :
         toLowerCase(ActiveStore(r)[i].number) = <<"7", "0", "2", ".", "1", "9", "c">>

MalformedReplies ==
  {<<"7", "0", "2", "1", "9">>, <<"r", "u", "l", "e", " ", "7", "0", "2", ".", "1", "9">>, <<"7", "0", "2", ".">>, <<"7", "0", "2">>, <<>>,
   <<"n", "o", "n", "e">>, <<"N", "o", "N", "e">>}

\* C3: the validator returns something other than "NONE" only if the first
\* token of the trimmed reply, lower-cased, matches the citation pattern in
\* full; "70219", "rule 702.19", "702.", "702", "" and "none" in any case
\* give "NONE" whatever the store holds.
C3_OnlyFullCitations ==
  \A r \in Requests :
    Validated(r) =>
      /\ Response(r).ruleNumber # NONE => IsCitation(FirstTokenLower(ReplyOf(r)))
      /\ ReplyOf(r) \in MalformedReplies => Response(r).ruleNumber = NONE

\* "rule 702.19" answered "NONE" although 702.19 is in the store
C3_Witness ==
  \E r \in Requests :
    /\ Validated(r)
    /\ ReplyOf(r) = <<"r", "u", "l", "e", " ", "7", "0", "2", ".", "1", "9">>
    /\ Response(r).ruleNumber = NONE
    /\ \E i \in 1..Len(ActiveStore(r)) : ActiveStore(r)[i].number = <<"7", "0", "2", ".", "1", "9">>

(***************************************************************************)
(* Candidate retrieval on arbitrary questions (bounded): one request of    *)
(* part_000 or server.js is received with a question made of at most       *)
(* MaxQuestionPieces of the pieces below, on loaded and on empty stores.   *)
(***************************************************************************)
QuestionPieces ==
  {<<"t", "r", "a", "m", "p", "l", "e">>, <<" ">>, <<"a", "b">>, <<"!">>,
   <<"x", "y", "z">>, <<"ue">>}

QuestionTexts ==
  {Flatten(ps) : ps \in UNION {[1..n -> QuestionPieces] : n \in 1..MaxQuestionPieces}}

\* a rules_with_embeddings.json whose first record has no vector
FileEmb_B ==
  <<[number |-> <<"7", "0", "2">>, text |-> <<"7", "0", "2", " ", "x", "y", "z">>,
     hasEmbedding |-> FALSE, embedding |-> <<>>],
    [number |-> <<"7", "0", "2", ".", "1", "9">>, text |-> <<"7", "0", "2", ".", "1", "9", " ", "T", "r", "a", "m", "p", "l", "e">>,
     hasEmbedding |-> TRUE, embedding |-> <<1, 0>>]>>

InitRetrieve ==
  /\ InitWith({Unreadable, FileEN_A}, {Unreadable, FileDE_A},
              {Unreadable, FileEmb_A, FileEmb_B})
  /\ apiKey = TRUE
  /\ variant \in {"part_000", "server"}
  /\ variant = "server" => fileDE = Unreadable

NextRetrieve ==
  \/ Startup
  \/ \E q \in QuestionTexts, l \in {"undefined", "en"} :
       Receive("r1", [question |-> JsString(q), language |-> l])

SpecRetrieve == InitRetrieve /\ [][NextRetrieve]_vars

\* the store the running variant retrieves the candidates of request r from
RetrievalStore(r) ==
  IF variant = "part_000"
  THEN getRulesForLanguage(req[r].language, serverRulesEN, serverRulesDE)
  ELSE rulesWithEmbeddings

\* no word of s (a maximal run without white space) holds more than two
\* characters of the class
NoUsableToken(s, class) ==
  \A i \in 1..Len(s), j \in 1..Len(s) :
    (i <= j /\ \A k \in i..j : ~IsSpace(s[k])) =>
      Cardinality({k \in i..j : s[k] \in class}) <= 2

\* the characters that count for the tokens of the variant's strategy
StrategyChars == IF variant = "part_000" THEN KeywordChars ELSE TokenChars

\* C10: every retrieval strategy (static routing, findRelevantRules,
\* findSimilarRules) returns an empty candidate list when the normalized
\* question has no usable token or the active rule store is empty.
C10_EmptyCandidates ==
  \A r \in Requests :
    (/\ req[r].pc # "idle"
     /\ variant \in {"part_000", "server"}
     /\ \/ NoUsableToken(req[r].normalizedQuestion, StrategyChars)
        \/ RetrievalStore(r) = <<>>) =>
      /\ req[r].pc = "fetch"
      /\ req[r].candidates = <<>>
      /\ variant = "part_000" =>
           /\ routeCandidates(req[r].normalizedQuestion, RetrievalStore(r)) = <<>>
           /\ findRelevantRules(req[r].normalizedQuestion, RetrievalStore(r), 5) = <<>>
      /\ variant = "server" =>
           findSimilarRules(req[r].normalizedQuestion, RetrievalStore(r), 15)
             = [threw |-> FALSE, list |-> <<>>]

\* a question of short words only, on a loaded store, got no candidates
C10_Witness ==
  \E r \in Requests :
    /\ req[r].pc = "fetch"
    /\ RetrievalStore(r) # <<>>
    /\ Len(req[r].normalizedQuestion) >= 4
    /\ NoUsableToken(req[r].normalizedQuestion, StrategyChars)
    /\ req[r].candidates = <<>>

(***************************************************************************)
(* Startup on arbitrary rules files (bounded): the specification under     *)
(* which the parser is checked.                                            *)
(***************************************************************************)
RawPieces ==
  {<<"7", "0", "2">>, <<".", "1">>, <<"b">>, <<" ">>, <<"x">>,
   <<"\n">>, <<"\r">>, <<"\n", "7", "0", "2">>, <<"\n", "x">>}

RawTexts ==
  {Flatten(ps) : ps \in UNION {[1..n -> RawPieces] : n \in 0..MaxRawPieces}}

SmallFileDE == <<"7", "0", "2", " ", "x">>

InitLoad ==
  /\ variant \in {"part_000", "server"}
  /\ apiKey = TRUE
  /\ fileEN \in (IF variant = "part_000" THEN RawTexts ELSE {Unreadable})
  /\ fileDE \in (IF variant = "part_000" THEN {Unreadable, SmallFileDE}
                 ELSE RawTexts)
  /\ fileEmb = Unreadable
  /\ serverRulesEN = <<>>
  /\ serverRulesDE = <<>>
  /\ rulesWithEmbeddings = <<>>
  /\ phase = "startup"
  /\ req = [r \in Requests |-> IdleRequest]

NextLoad == Startup

SpecLoad == InitLoad /\ [][NextLoad]_vars

\* the file and the store parseRulesServer built from it
ParsedFile == IF variant = "part_000" THEN fileEN ELSE fileDE

ParsedStore == IF variant = "part_000" THEN serverRulesEN ELSE serverRulesDE

HeaderLines(lines) ==
  {i \in 1..Len(lines) : ruleHeaderRegex(lines[i]) # NoMatch}

\* the k-th header line of lines, and Len(lines) + 1 past the last one
KthHeader(lines, k) ==
  IF k > Cardinality(HeaderLines(lines)) THEN Len(lines) + 1
  ELSE CHOOSE i \in HeaderLines(lines) :
         Cardinality({j \in HeaderLines(lines) : j < i}) = k - 1

\* C8: parseRulesServer returns one record per header line, in source order;
\* the number of a record is the number captured from its header line and
\* its text is the header line and the non-header lines up to the next
\* header line, joined by newlines and trimmed; the lines before the first
\* header line are in no record.
C8_OneRecordPerHeader ==
  (phase = "serving" /\ ParsedFile # Unreadable) =>
    LET lines == SplitLines(ParsedFile)
        n == Cardinality(HeaderLines(lines))
    IN  /\ Len(ParsedStore) = n
        /\ \A k \in 1..n :
             /\ ParsedStore[k].number = ruleHeaderRegex(lines[KthHeader(lines, k)])
             /\ ParsedStore[k].text =
                  trim(JoinLines(SubSeq(lines, KthHeader(lines, k),
                                        KthHeader(lines, k + 1) - 1)))

\* a non-empty line before the first header line, and two header lines with
\* a non-empty body line between them
C8_Witness ==
  /\ phase = "serving"
  /\ ParsedFile # Unreadable
  /\ Len(ParsedStore) = 2
  /\ LET lines == SplitLines(ParsedFile)
     IN  /\ Len(lines) >= 4
         /\ lines[1] # <<>>
         /\ HeaderLines(lines) = {2, 4}
         /\ lines[3] # <<>>
         /\ ParsedStore[1].text = lines[2] \o <<"\n">> \o lines[3]

\* C9: the store built by parseRulesServer holds no two records with the
\* same number.
C9_UniqueNumbers ==
  phase = "serving" =>
    \A i, j \in 1..Len(ParsedStore) :
      i # j => ParsedStore[i].number # ParsedStore[j].number

(***************************************************************************)
(* findRelevantRules on arbitrary stores (bounded): part_000 loads an      *)
(* English rules file of at most MaxRules of the rules below and receives  *)
(* one question.                                                           *)
(***************************************************************************)
ScoreRuleTexts ==
  {<<"7", "0", "2", ".", "1", "9", " ", "T", "r", "a", "m", "p", "l", "e", "\n", "x", "y", "z">>,
   <<"7", "0", "2", ".", "1", "9", "c", " ", "x", "y", "z", " ", "x", "y", "z", " ", "x", "y", "z">>,
   <<"5", "1", "0", ".", "2", "c", " ", "x", "y", "z">>,
   <<"5", "1", "0", ".", "3", "d", " ", "x", "y", "z", "w", " ", "x", "y", "z", "-", "x", "y", "z">>,
   <<"7", "0", "2", ".", "1", "5", " ", "L", "i", "f", "e", "l", "i", "n", "k", "\n", "a", "b", "c">>,
   <<"5", "1", "0", ".", "4", " ", "x", "y", "z", ",", " ", "x", "y", "z", ".", " ", "X", "Y", "Z">>}

ScoreFiles ==
  {JoinLines(rs) : rs \in UNION {[1..n -> ScoreRuleTexts] : n \in 0..MaxRules}}

ScoreQuestions == {<<"x", "y", "z">>, <<"X", "y", "z", " ", "a", "b", "c", "?">>, <<"l", "i", "f", "e", "l", "i", "n", "k", " ", "x", "y", "z">>}

\* the values of maxResults findRelevantRules is applied to; the handler's is 5
ResultLimits == {1, 2, 5}

InitScore ==
  /\ InitWith(ScoreFiles, {Unreadable}, {Unreadable})
  /\ variant = "part_000"
  /\ apiKey = TRUE

NextScore ==
  \/ Startup
  \/ \E q \in ScoreQuestions :
       Receive("r1", [question |-> JsString(q), language |-> "en"])

SpecScore == InitScore /\ [][NextScore]_vars

\* the tokens of the question of request r, as findRelevantRules cuts them
QuestionTokens(r) ==
  UsableTokens(SplitWs(trim(toLowerCase(req[r].normalizedQuestion))),
               KeywordChars)

\* the number of places of text where kw stands as a whole word: kw, with no
\* letter, digit or underscore right before or right behind it
Occurrences(text, kw) ==
  Cardinality({i \in 1..Len(text) :
     /\ i + Len(kw) - 1 <= Len(text)
     /\ SubSeq(text, i, i + Len(kw) - 1) = kw
     /\ i = 1 \/ ~IsWordChar(text[i - 1])
     /\ i + Len(kw) - 1 = Len(text) \/ ~IsWordChar(text[i + Len(kw)])})

\* the main-sub-rule bonus and the header-keyword bonuses of rule rec
Bonus(rec) ==
  (IF IsMainSubRule(rec.number) THEN 3 ELSE 0)
  + 5 * Cardinality({i \in 1..Len(mechKeywords) :
          includes(toLowerCase(HeaderLineOf(rec.text)), mechKeywords[i])})

\* the sum, over the tokens from the n-th on that occur in text as a whole
\* word, of 5 + min(count, 5) * 2
RECURSIVE TokenSum(_, _, _)
TokenSum(text, tokens, n) ==
  IF n > Len(tokens) THEN 0
  ELSE (IF Occurrences(text, tokens[n]) > 0
        THEN 5 + Min(Occurrences(text, tokens[n]), 5) * 2 ELSE 0)
       + TokenSum(text, tokens, n + 1)

\* the score the specification gives rule rec for the tokens
ExpectedScore(rec, tokens) ==
  IF \E n \in 1..Len(tokens) : Occurrences(toLowerCase(rec.text), tokens[n]) > 0
  THEN TokenSum(toLowerCase(rec.text), tokens, 1) + Bonus(rec)
  ELSE 0

\* rule a is returned before every place at which rule b is returned
ReturnedBefore(res, a, b) ==
  \A p \in 1..Len(res) : res[p] = b => \E o \in 1..(p - 1) : res[o] = a

GermanPieces ==
  {<<"t", "oe", "d", "l", "i", "c", "h", "e", "n", " ">>,
   <<"T", "oe", "d", "l", "i", "c", "h", "e", "r", " ">>,
   <<"T", "O", "D", "L", "I", "C", "H", "E", "M", " ">>,
   <<"t", "oe", "d", "l", "i", "c", "h", " ">>,
   <<"S", "c", "h", "a", "d", "e", "n">>,
   <<"W", "ae", "c", "h", "t", "e", "r", "h", "a", "f">>,
   <<"b", "l", "o", "c", "k", "t">>,
   <<"?", " ", "S", "t", "i", "r", "b", "t", " ", "d", "i", "e", " ", "K", "r", "e", "a", "t", "u", "r">>}

GermanQuestions ==
  {Flatten(ps) : ps \in UNION {[1..n -> GermanPieces] : n \in 1..MaxQuestionPieces}}

InitNormalize ==
  /\ InitWith({Unreadable}, {Unreadable}, {Unreadable})
  /\ variant \in {"part_000", "server"}
  /\ apiKey = TRUE

NextNormalize ==
  \/ Startup
  \/ \E q \in GermanQuestions :
       Receive("r1", [question |-> JsString(q), language |-> "undefined"])

SpecNormalize == InitNormalize /\ [][NextNormalize]_vars

\* the question of request r as sent, lower-cased
LowerQuestion(r) == toLowerCase(req[r].body.question.s)

IsLetter(c) == c \in LowerLetters \cup UpperLetters \cup Umlauts \cup UpperUmlauts

\* "tödlichen schaden" in the forms of the adjective, with "o" for "ö" too
LethalAdjectives ==
  {<<"t", "oe", "d", "l", "i", "c", "h", "e", "n">>, <<"t", "oe", "d", "l", "i", "c", "h", "e", "r">>, <<"t", "oe", "d", "l", "i", "c", "h", "e", "m">>, <<"t", "oe", "d", "l", "i", "c", "h">>,
   <<"t", "o", "d", "l", "i", "c", "h", "e", "n">>, <<"t", "o", "d", "l", "i", "c", "h", "e", "r">>, <<"t", "o", "d", "l", "i", "c", "h", "e", "m">>, <<"t", "o", "d", "l", "i", "c", "h">>}

\* the places of s at which sub stands
PlacesOf(s, sub) == {i \in 1..Len(s) : StartsWithAt(s, i, sub)}

\* the places of s at which sub stands as words of its own: no letter right
\* before it and none right behind it
WordPlacesOf(s, sub) ==
  {i \in PlacesOf(s, sub) :
     /\ i = 1 \/ ~IsLetter(s[i - 1])
     /\ i + Len(sub) > Len(s) \/ ~IsLetter(s[i + Len(sub)])}

NormalizedToLethalDamage(nq) ==
  /\ includes(nq, <<"l", "e", "t", "h", "a", "l", " ", "d", "a", "m", "a", "g", "e">>)
  /\ \A adj \in LethalAdjectives : ~includes(nq, adj \o <<" ", "d", "a", "m", "a", "g", "e">>)

\* C13 as stated: for language "de" every question that contains "tödlichen
\* Schaden", in any letter case, in the forms tödlicher / tödlichem / tödlich
\* and with "o" for "ö", normalizes (server.js) to a string that contains
\* "lethal damage" and no German adjective followed by "damage".
C13_LethalDamage ==
  (variant = "server" /\ req["r1"].pc = "fetch") =>
    ((\E adj \in LethalAdjectives :
        PlacesOf(LowerQuestion("r1"), adj \o <<" ", "s", "c", "h", "a", "d", "e", "n">>) # {})
       => NormalizedToLethalDamage(req["r1"].normalizedQuestion))

\* C13 as amended: the same for every question that contains the phrase as
\* words of its own, with no letter right before the adjective and none
\* right behind "Schaden".
C13_LethalDamageAsWords ==
  (variant = "server" /\ req["r1"].pc = "fetch") =>
    ((\E adj \in LethalAdjectives :
        WordPlacesOf(LowerQuestion("r1"), adj \o <<" ", "s", "c", "h", "a", "d", "e", "n">>) # {})
       => NormalizedToLethalDamage(req["r1"].normalizedQuestion))

\* "... Tödlicher Schaden? ", with capitals, became "... lethal damage? "
C13_Witness ==
  /\ variant = "server"
  /\ req["r1"].pc = "fetch"
  /\ PlacesOf(req["r1"].body.question.s, <<"T", "oe", "d", "l", "i", "c", "h", "e", "r", " ", "S", "c", "h", "a", "d", "e", "n", "?", " ">>) # {}
  /\ WordPlacesOf(LowerQuestion("r1"), <<"t", "oe", "d", "l", "i", "c", "h", "e", "r", " ", "s", "c", "h", "a", "d", "e", "n">>) # {}
  /\ PlacesOf(req["r1"].normalizedQuestion, <<"l", "e", "t", "h", "a", "l", " ", "d", "a", "m", "a", "g", "e", "?", " ">>) # {}

\* the German rewrite table of the running variant
ActiveGermanRewrites ==
  IF variant = "server" THEN germanRewrites_server ELSE germanRewrites_part000

\* a pattern of more than one word: one of its literals holds a blank
IsMultiWord(pat) ==
  \E k \in 1..Len(pat) :
    /\ pat[k].k = "alt"
    /\ \E a \in 1..Len(pat[k].alts) : includes(pat[k].alts[a], <<" ">>)

MatchesSomewhere(s, pat) == \E i \in 1..Len(s) : MatchFrom(pat, 1, s, i) > i

\* C15: in the German rewrite table every multi-word pattern is applied
\* before the generic patterns that overlap it: for every multi-word pattern
\* of the table and every question with text that matches it, the output
\* contains the replacement of that pattern.
C15_CompoundNeverShadowed ==
  req["r1"].pc = "fetch" =>
    \A k \in 1..Len(ActiveGermanRewrites) :
      (/\ IsMultiWord(ActiveGermanRewrites[k].pat)
       /\ MatchesSomewhere(LowerQuestion("r1"), ActiveGermanRewrites[k].pat))
        => includes(req["r1"].normalizedQuestion, ActiveGermanRewrites[k].rep)

(***************************************************************************)
(* Candidates, store selection, context and reply (part_000, server.js): a  *)
(* request with one of a few questions in "en" or "de", over rule files     *)
(* with the combat chapters, one of them with eleven 702.19 rules, or over  *)
(* a file of records with vectors; the call succeeds and the reply is one   *)
(* of four texts.                                                           *)
(***************************************************************************)
RouteFileEN ==
  <<"7", "0", "2", ".", "1", "9", " ", "T", "r", "a", "m", "p", "l", "e", "\n", "a", "\n", "b", "\n", "c", "\n", "d", "\n", "7", "0", "2", ".", "1", "9", "c", " ", "x", "y", "z", "\n", "7", "0", "2", ".", "1", "5", " ", "L", "\n", "7", "0", "2", ".", "4", " ", "D", "\n", "5", "1", "0", ".", "1", " ", "x", "y", "z", "\n", "a", "\n", "b", "\n", "c", "\n", "d", "\n", "e", "\n", "f", "\n", "g", "\n", "h", "\n", "i", "\n", "j", "\n", "k", "\n", "7", "0", "2", ".", "7", " ", "F">>

RouteFileMany ==
  <<"7", "0", "2", ".", "1", "9", "a", "\n", "7", "0", "2", ".", "1", "9", "b", "\n", "7", "0", "2", ".", "1", "9", "c", "\n", "7", "0", "2", ".", "1", "9", "d", "\n", "7", "0", "2", ".", "1", "9", "e", "\n", "7", "0", "2", ".", "1", "9", "f", "\n", "7", "0", "2", ".", "1", "9", "g", "\n", "7", "0", "2", ".", "1", "9", "h", "\n", "7", "0", "2", ".", "1", "9", "i", "\n", "7", "0", "2", ".", "1", "9", "j", "\n", "7", "0", "2", ".", "1", "9", " ", "T">>

RouteFileDE == <<"7", "0", "2", ".", "1", "9", " ", "T", "r", "a", "m", "p", "e", "l", "s", "c", "h", "a", "d", "e", "n", "\n", "7", "0", "2", ".", "1", "9", "c", " ", "x", "y", "z", "\n", "5", "1", "0", ".", "1", " ", "x", "y", "z">>

\* a rules_with_embeddings.json of sixteen records with vectors, the first
\* with eleven lines after its header
RouteFileEmb ==
  <<[number |-> <<"5", "1", "0", ".", "1">>, text |-> <<"5", "1", "0", ".", "1", " ", "x", "y", "z", "\n", "a", "\n", "b", "\n", "c", "\n", "d", "\n", "e", "\n", "f", "\n", "g", "\n", "h", "\n", "i", "\n", "j", "\n", "k">>,
     hasEmbedding |-> TRUE, embedding |-> <<1, 0>>],
    [number |-> <<"7", "0", "2", ".", "1">>, text |-> <<"7", "0", "2", ".", "1", " ", "t">>,
     hasEmbedding |-> TRUE, embedding |-> <<1, 1>>],
    [number |-> <<"7", "0", "2", ".", "2">>, text |-> <<"7", "0", "2", ".", "2", " ", "t">>,
     hasEmbedding |-> TRUE, embedding |-> <<1, 2>>],
    [number |-> <<"7", "0", "2", ".", "3">>, text |-> <<"7", "0", "2", ".", "3", " ", "t">>,
     hasEmbedding |-> TRUE, embedding |-> <<1, 3>>],
    [number |-> <<"7", "0", "2", ".", "4">>, text |-> <<"7", "0", "2", ".", "4", " ", "t">>,
     hasEmbedding |-> TRUE, embedding |-> <<1, 4>>],
    [number |-> <<"7", "0", "2", ".", "5">>, text |-> <<"7", "0", "2", ".", "5", " ", "t">>,
     hasEmbedding |-> TRUE, embedding |-> <<1, 5>>],
    [number |-> <<"7", "0", "2", ".", "6">>, text |-> <<"7", "0", "2", ".", "6", " ", "t">>,
     hasEmbedding |-> TRUE, embedding |-> <<1, 6>>],
    [number |-> <<"7", "0", "2", ".", "7">>, text |-> <<"7", "0", "2", ".", "7", " ", "t">>,
     hasEmbedding |-> TRUE, embedding |-> <<1, 7>>],
    [number |-> <<"7", "0", "2", ".", "8">>, text |-> <<"7", "0", "2", ".", "8", " ", "t">>,
     hasEmbedding |-> TRUE, embedding |-> <<1, 8>>],
    [number |-> <<"7", "0", "2", ".", "9">>, text |-> <<"7", "0", "2", ".", "9", " ", "t">>,
     hasEmbedding |-> TRUE, embedding |-> <<1, 9>>],
    [number |-> <<"7", "0", "2", ".", "1", "0">>, text |-> <<"7", "0", "2", ".", "1", "0", " ", "t">>,
     hasEmbedding |-> TRUE, embedding |-> <<1, 10>>],
    [number |-> <<"7", "0", "2", ".", "1", "1">>, text |-> <<"7", "0", "2", ".", "1", "1", " ", "t">>,
     hasEmbedding |-> TRUE, embedding |-> <<1, 11>>],
    [number |-> <<"7", "0", "2", ".", "1", "2">>, text |-> <<"7", "0", "2", ".", "1", "2", " ", "t">>,
     hasEmbedding |-> TRUE, embedding |-> <<1, 12>>],
    [number |-> <<"7", "0", "2", ".", "1", "3">>, text |-> <<"7", "0", "2", ".", "1", "3", " ", "t">>,
     hasEmbedding |-> TRUE, embedding |-> <<1, 13>>],
    [number |-> <<"7", "0", "2", ".", "1", "4">>, text |-> <<"7", "0", "2", ".", "1", "4", " ", "t">>,
     hasEmbedding |-> TRUE, embedding |-> <<1, 14>>],
    [number |-> <<"7", "0", "2", ".", "1", "5">>, text |-> <<"7", "0", "2", ".", "1", "5", " ", "t">>,
     hasEmbedding |-> TRUE, embedding |-> <<1, 15>>]>>

RouteQuestions ==
  {<<"T", "r", "a", "m", "p", "l", "e", "?">>, <<"t", "r", "a", "m", "p", "l", "e", " ", "l", "i", "f", "e", "l", "i", "n", "k">>, <<"d", "o", "u", "b", "l", "e", " ", "s", "t", "r", "i", "k", "e">>, <<"f", "i", "r", "s", "t", " ", "s", "t", "r", "i", "k", "e", " ", "b", "l", "o", "c", "k">>,
   <<"x", "y", "z">>, <<"T", "r", "a", "m", "p", "e", "l", "s", "c", "h", "a", "d", "e", "n">>, <<"q", "q", "q">>}

RouteReplies == {<<"7", "0", "2", ".", "1", "9", "c">>, <<"7", "0", "2", ".", "1", "9", "C", " ", "x">>, <<"9", "9", "9", ".", "9">>, <<"n", "o", "n", "e">>}

InitRoute ==
  /\ InitWith({Unreadable, RouteFileEN, RouteFileMany}, {Unreadable, RouteFileDE},
              {Unreadable, RouteFileEmb})
  /\ variant \in {"part_000", "server"}
  /\ apiKey = TRUE

NextRoute ==
  \/ Startup
  \/ \E q \in RouteQuestions, l \in {"en", "de"} :
       Receive("r1", [question |-> JsString(q), language |-> l])
  \/ FetchSettles("r1", "ok")
  \/ \E c \in RouteReplies : JsonSettles("r1", StringData(c))

SpecRoute == InitRoute /\ [][NextRoute]_vars

\* the handler of request r has assembled its context and placed its call
Routed(r) == req[r].calls = 1

HasNumber(rules, number) == \E i \in 1..Len(rules) : rules[i].number = number

IsIn(x, xs) == \E i \in 1..Len(xs) : xs[i] = x

\* the reply to request r was exactly text and the handler has answered
RepliedWith(r, text) ==
  Responded(r) /\ req[r].data = StringData(text)

\* C12 as stated: for every question whose normalized form contains
\* "trample" and every active store that contains rule 702.19, the candidates
\* are the rules of the store whose number starts with "702.19", the context
\* contains the block header "Rule 702.19:", and a reply "702.19c" whose
\* number is in the store is answered with ruleNumber "702.19c".
C12_TrampleRouting ==
  LET store == ActiveStore("r1")
      cands == req["r1"].candidates
  IN  (/\ variant = "part_000" /\ Routed("r1")
       /\ includes(req["r1"].normalizedQuestion, KwTrample)
       /\ HasNumber(store, <<"7", "0", "2", ".", "1", "9">>))
        => /\ \A i \in 1..Len(cands) : startsWith(cands[i].number, <<"7", "0", "2", ".", "1", "9">>)
           /\ \A i \in 1..Len(store) :
                startsWith(store[i].number, <<"7", "0", "2", ".", "1", "9">>) => IsIn(store[i], cands)
           /\ includes(req["r1"].context, <<"R", "u", "l", "e", " ", "7", "0", "2", ".", "1", "9", ":", "\n">>)
           /\ (RepliedWith("r1", <<"7", "0", "2", ".", "1", "9", "c">>) /\ HasNumber(store, <<"7", "0", "2", ".", "1", "9", "c">>))
                => Response("r1") = RuleResponse(<<"7", "0", "2", ".", "1", "9", "c">>)

\* the first ten rules of the store whose number starts with prefix
FirstTenWithPrefix(rules, prefix) ==
  LET at == {i \in 1..Len(rules) : startsWith(rules[i].number, prefix)}
      early == {i \in at : Cardinality({j \in at : j < i}) < 10}
  IN  [rule \in {rules[i] : i \in early} |-> TRUE]

\* C12 as amended: the same when rule 702.19 is among the first ten rules
\* of the store whose number starts with "702.19"; the candidates are these
\* first ten rules.
C12_TrampleRoutingFirstTen ==
  LET store == ActiveStore("r1")
      cands == req["r1"].candidates
      ten == DOMAIN FirstTenWithPrefix(store, <<"7", "0", "2", ".", "1", "9">>)
  IN  (/\ variant = "part_000" /\ Routed("r1")
       /\ includes(req["r1"].normalizedQuestion, KwTrample)
       /\ \E rule \in ten : rule.number = <<"7", "0", "2", ".", "1", "9">>)
        => /\ {cands[i] : i \in 1..Len(cands)} = ten
           /\ Len(cands) = Cardinality(ten)
           /\ includes(req["r1"].context, <<"R", "u", "l", "e", " ", "7", "0", "2", ".", "1", "9", ":", "\n">>)
           /\ (RepliedWith("r1", <<"7", "0", "2", ".", "1", "9", "c">>) /\ HasNumber(store, <<"7", "0", "2", ".", "1", "9", "c">>))
                => Response("r1") = RuleResponse(<<"7", "0", "2", ".", "1", "9", "c">>)

\* "Trampelschaden" asked in German over the English file: 702.19 and 702.19c
\* are the candidates and the reply "702.19c" is the answer
C12_Witness ==
  /\ variant = "part_000"
  /\ req["r1"].body.question.s = <<"T", "r", "a", "m", "p", "e", "l", "s", "c", "h", "a", "d", "e", "n">>
  /\ req["r1"].language = "de"
  /\ fileEN = RouteFileEN
  /\ Len(req["r1"].candidates) = 2
  /\ includes(req["r1"].context, <<"R", "u", "l", "e", " ", "7", "0", "2", ".", "1", "9", ":", "\n">>)
  /\ RepliedWith("r1", <<"7", "0", "2", ".", "1", "9", "c">>)
  /\ Response("r1") = RuleResponse(<<"7", "0", "2", ".", "1", "9", "c">>)

\* the rules file of the language of request r could not be read
OwnFileUnreadable(r) ==
  IF req[r].language = "de" THEN fileDE = Unreadable ELSE fileEN = Unreadable

\* the store of the language of request r, and the store of the other one
OwnStore(r) == IF req[r].language = "de" THEN serverRulesDE ELSE serverRulesEN

OtherStore(r) == IF req[r].language = "de" THEN serverRulesEN ELSE serverRulesDE

\* C14 as stated: when the rules file of a language cannot be read at
\* startup, the store of that language is empty, the process keeps serving,
\* and every request in that language gets no candidates and, when it is
\* answered with status 200, the rule number "NONE".
C14_UnreadableFileGivesNone ==
  (variant = "part_000" /\ phase = "serving" /\ Routed("r1") /\ OwnFileUnreadable("r1")) =>
    /\ OwnStore("r1") = <<>>
    /\ req["r1"].candidates = <<>>
    /\ (Responded("r1") /\ Response("r1").status = 200)
         => Response("r1").ruleNumber = NONE

\* C14 as amended: the store of that language is empty and the process keeps
\* serving; a request in that language is looked up in the store of the
\* other language, candidates and citations alike, and only when that store
\* is empty too are there no candidates and is every 200 response "NONE".
C14_UnreadableFileUsesOtherStore ==
  (variant = "part_000" /\ phase = "serving" /\ Routed("r1") /\ OwnFileUnreadable("r1")) =>
    /\ OwnStore("r1") = <<>>
    /\ req["r1"].candidates =
         candidateRules(req["r1"].normalizedQuestion, OtherStore("r1"))
    /\ Responded("r1") =>
         Response("r1") = replyResponse(variant, req["r1"].data, OtherStore("r1"))
    /\ OtherStore("r1") = <<>> =>
         /\ req["r1"].candidates = <<>>
         /\ (Responded("r1") /\ Response("r1").status = 200)
              => Response("r1").ruleNumber = NONE

\* the German file is unreadable, the English one is not: a German request
\* has candidates and is answered "702.19c" out of the English store
C14_Witness ==
  /\ variant = "part_000"
  /\ fileDE = Unreadable
  /\ fileEN = RouteFileEN
  /\ serverRulesDE = <<>>
  /\ req["r1"].language = "de"
  /\ req["r1"].candidates # <<>>
  /\ RepliedWith("r1", <<"7", "0", "2", ".", "1", "9", "c">>)
  /\ Response("r1") = RuleResponse(<<"7", "0", "2", ".", "1", "9", "c">>)

\* the branches of the routing chain in their order: the keywords of a
\* branch and the number prefixes of its rules, in the order of concatenation
RoutingChain ==
  <<[keywords |-> {KwTrample}, prefixes |-> <<<<"7", "0", "2", ".", "1", "9">>>>],
    [keywords |-> {KwLifelink}, prefixes |-> <<<<"7", "0", "2", ".", "1", "5">>>>],
    [keywords |-> {KwDeathtouch}, prefixes |-> <<<<"7", "0", "2", ".", "2">>>>],
    [keywords |-> {KwDoubleStrike}, prefixes |-> <<<<"7", "0", "2", ".", "4">>, <<"5", "1", "0", ".">>>>],
    [keywords |-> {KwFirstStrike}, prefixes |-> <<<<"7", "0", "2", ".", "7">>, <<"5", "1", "0", ".">>>>],
    [keywords |-> {KwCombatDamage, KwAttack, KwBlock},
     prefixes |-> <<<<"5", "1", "0", ".">>, <<"7", "0", "2", ".", "4">>, <<"7", "0", "2", ".", "7">>>>]>>

MatchedBranches(nq) ==
  {k \in 1..Len(RoutingChain) : \E kw \in RoutingChain[k].keywords : includes(nq, kw)}

\* the rules of a branch: per prefix the rules of the store with it
RECURSIVE CategoryRules(_, _)
CategoryRules(rules, prefixes) ==
  IF prefixes = <<>> THEN <<>>
  ELSE RulesWithPrefix(rules, Head(prefixes)) \o CategoryRules(rules, Tail(prefixes))

\* C16 as stated (for stores of at most ten rules, where nothing is cut):
\* the candidate list contains the rules of every branch whose keyword is in
\* the normalized question.
C16_EveryMatchedCategory ==
  LET store == ActiveStore("r1")
      cands == req["r1"].candidates
  IN  (variant = "part_000" /\ Routed("r1") /\ Len(store) <= 10) =>
        \A k \in MatchedBranches(req["r1"].normalizedQuestion) :
          \A i \in 1..Len(store) :
            (\E j \in 1..Len(RoutingChain[k].prefixes) :
               startsWith(store[i].number, RoutingChain[k].prefixes[j]))
              => IsIn(store[i], cands)

\* C16 as amended: the candidate list is the first ten rules of the first
\* branch of the chain whose keyword is in the normalized question; for
\* "double strike" without "trample", "lifelink" and "deathtouch" these are
\* the rules with prefix "702.4" followed by those with prefix "510.".
C16_FirstMatchedCategory ==
  LET store == ActiveStore("r1")
      matched == MatchedBranches(req["r1"].normalizedQuestion)
  IN  (variant = "part_000" /\ Routed("r1") /\ matched # {}) =>
        LET first == CHOOSE k \in matched : \A m \in matched : k <= m
        IN  req["r1"].candidates =
              FirstN(CategoryRules(store, RoutingChain[first].prefixes), 10)

\* "first strike block" over the English file matches two branches: the
\* candidates are rule 702.7 followed by rule 510.1, those of "first strike"
C16_Witness ==
  /\ variant = "part_000"
  /\ fileEN = RouteFileEN
  /\ req["r1"].language = "en"
  /\ Routed("r1")
  /\ req["r1"].body.question.s = <<"f", "i", "r", "s", "t", " ", "s", "t", "r", "i", "k", "e", " ", "b", "l", "o", "c", "k">>
  /\ Cardinality(MatchedBranches(req["r1"].normalizedQuestion)) = 2
  /\ Len(req["r1"].candidates) = 2
  /\ req["r1"].candidates[1].number = <<"7", "0", "2", ".", "7">>
  /\ req["r1"].candidates[2].number = <<"5", "1", "0", ".", "1">>

\* the user prompt of the call of request r
UserPrompt(r) ==
  userPrompt(variant, req[r].language, req[r].body.question.s,
             req[r].normalizedQuestion, req[r].context)

\* the most blocks a context holds, and the most following lines of a block
MaxBlocks == IF variant = "server" THEN 15 ELSE 10

MaxFollowingLines(r) ==
  IF variant = "server" THEN 8
  ELSE IF MatchedBranches(req[r].normalizedQuestion) # {} THEN 10 ELSE 3

\* "Rule <number>:", the header line, and the line that joins the first n of
\* the following lines of the rule text with blanks
ExpectedBlock(rule, n) ==
  LET lines == SplitLines(rule.text)
      following == [k \in 1..Min(n, Len(lines) - 1) |-> lines[k + 1]]
  IN  <<"R", "u", "l", "e", " ">> \o rule.number \o <<":", "\n">> \o lines[1] \o <<"\n">>
        \o Join(following, <<" ">>)

\* C19: the assembled context holds at most 10 blocks (15 in server.js), one
\* per candidate and separated by a blank line, each "Rule <number>:", the
\* header line of the rule and a line that joins with blanks at most N
\* following lines (N = 10 when a routing keyword matched, 3 for the generic
\* fallback, 8 in server.js); it is empty exactly when there is no candidate,
\* and then the user prompt holds the sentence that no excerpts are available.
C19_ContextBoundedWellFormed ==
  (variant \in {"part_000", "server"} /\ Routed("r1")) =>
    LET cands == req["r1"].candidates
        context == req["r1"].context
    IN  /\ Len(cands) <= MaxBlocks
        /\ context =
             Join([i \in 1..Len(cands) |->
                     ExpectedBlock(cands[i], MaxFollowingLines("r1"))],
                  <<"\n", "\n">>)
        /\ context = <<>> <=> cands = <<>>
        /\ cands = <<>> =>
             includes(UserPrompt("r1"),
                      IF req["r1"].language = "de"
                      THEN <<"K", "e", "i", "n", "e", " ", "R", "e", "g", "e", "l", "a", "u", "s", "z", "ue", "g", "e", " ", "v", "e", "r", "f", "ue", "g", "b", "a", "r", ".">>
                      ELSE <<"N", "o", " ", "r", "u", "l", "e", " ", "e", "x", "c", "e", "r", "p", "t", "s", " ", "a", "v", "a", "i", "l", "a", "b", "l", "e", ".">>)

\* "first strike block" over the English file: two blocks, that of rule
\* 510.1 with ten of its eleven following lines
C19_Witness ==
  /\ variant = "part_000"
  /\ fileEN = RouteFileEN
  /\ Routed("r1")
  /\ req["r1"].body.question.s = <<"f", "i", "r", "s", "t", " ", "s", "t", "r", "i", "k", "e", " ", "b", "l", "o", "c", "k">>
  /\ req["r1"].context =
       <<"R", "u", "l", "e", " ", "7", "0", "2", ".", "7", ":", "\n", "7", "0", "2", ".", "7", " ", "F", "\n", "\n", "\n", "R", "u", "l", "e", " ", "5", "1", "0", ".", "1", ":", "\n", "5", "1", "0", ".", "1", " ", "x", "y", "z", "\n", "a", " ", "b", " ", "c", " ", "d", " ", "e", " ", "f", " ", "g", " ", "h", " ", "i", " ", "j">>

\* C18: in server.js, for every loaded list of records and every question
\* with at least one usable token, findSimilarRules completes (the handler
\* goes on to its call), gives the similarity -1 to every rule that has no
\* vector or whose vector is not as long as the query vector, and returns at
\* most maxResults records in non-increasing order of similarity.
C18_SimilarRulesComplete ==
  (/\ variant = "server"
   /\ req["r1"].pc # "idle"
   /\ rulesWithEmbeddings # <<>>
   /\ ~NoUsableToken(req["r1"].normalizedQuestion, TokenChars)) =>
    LET rules == rulesWithEmbeddings
        found == findSimilarRules(req["r1"].normalizedQuestion, rules, 15)
        list == req["r1"].candidates
    IN  /\ ~found.threw
        /\ req["r1"].pc = "fetch"
        /\ list = found.list
        /\ Len(list) <= 15
        /\ \A i \in 1..Len(list), j \in 1..Len(list) :
             i < j => SimilarityGE(list[i].score, list[j].score)
        /\ \A i \in 1..Len(list), k \in 1..Len(rules) :
             (/\ rules[k].number = list[i].number
              /\ rules[k].text = list[i].text
              /\ \/ ~rules[k].hasEmbedding
                 \/ ~rules[1].hasEmbedding
                 \/ Len(rules[k].embedding) # Len(rules[1].embedding))
               => list[i].score = MinusOne

====
